---- MODULE Spec2Model ----
(***************************************************************************)
(* Model of the storey splitter (app/services/ifc/splitter.py) and of the  *)
(* material-fraction validation of the extract-building-elements route     *)
(* (app/api/routes/ifc_routes.py).                                         *)
(*                                                                         *)
(* A document is a small entity graph: one IfcProject, the storeys         *)
(* 1..n in declaration order, one IfcSpace decomposing storey 1, the       *)
(* elements 1..MaxElems, each with a representation and a styled item,     *)
(* one containment relationship per container that holds an element, one   *)
(* property relationship shared by the elements, and aggregation           *)
(* relationships project <- storeys and storey 1 <- space.                 *)
(* An element has at most one containment relationship, the cardinality    *)
(* [0:1] of IfcElement.ContainedInStructure.                               *)
(*                                                                         *)
(* Calls into the document library (add, remove, get_inverse, traverse,    *)
(* open, write, copyfile) may raise: at most MaxFaults calls of one run    *)
(* of split_by_storey do.                                                  *)
(*                                                                         *)
(* The route is modelled for one element of the page.  Fractions are exact *)
(* rationals [num, den]; rounding to five digits yields a rational over    *)
(* 100000, so the drift between validated and exposed values is kept.      *)
(*                                                                         *)
(* Three further components, each with its own variables and its own       *)
(* specification: the material service (app/services/lca/materials.py),    *)
(* the matching of constituents to width quantities                        *)
(* (app/services/ifc/constituents.py), and the resolution of volumes,      *)
(* areas and dimensions from quantity sets and common property sets        *)
(* (app/services/ifc/quantities.py, properties.py), where an lru_cache is  *)
(* a stored dictionary that callers share.                                 *)
(*                                                                         *)
(* The remaining components are modelled the same way: the containment     *)
(* resolver (properties.py), the unit functions as process_ifc uses them   *)
(* (units.py), the property-path query (property_values.py), the API key   *)
(* middleware (middleware/api_key.py), the line stream of /process and the *)
(* callback delivery of extract-building-elements.  Floats are exact       *)
(* rationals; strings the code matches by prefix, suffix or pattern are    *)
(* sequences of their parts.                                               *)
(***************************************************************************)
EXTENDS Integers, Sequences, FiniteSets, TLC

MaxStoreys == 2
MaxElems == 2
MaxFaults == 1
MaxLayers == 2
MaxThickness == 2
MaxConstituents == 213
MaxElementIds == 2
MaxRels == 2
MaxUnits == 2
MaxPsets == 2
MaxQueried == 2
MaxStreamed == 21
MaxChunked == 11

VARIABLES
    file,             \* self.file: the caller's source document
    file0,            \* the source document as it was at construction (history)
    pc,               \* position in split_by_storey
    i,                \* index of the storey being processed (1-based; the code counts from 0)
    output_dir,       \* "none" | "exists"
    src_path,         \* "none" | "exists" | "deleted": the temporary copy of the source
    src_content,      \* what self.file.write(src_path) wrote
    old_ifc,          \* the per-storey copy opened from dest_path
    new_ifc,          \* the target document: the set of entities added so far
    inverse_elements, \* entities collected with get_inverse in the add pass
    disk,             \* dest_path of storey s -> what the file holds
    result_files,     \* the list of records
    storey_error,     \* storey s -> the step whose exception reached the storey handler
    elem_errors,      \* storey s -> the element-level errors that were logged
    added,            \* storey s -> entities new_ifc.add(element) succeeded on in the add pass
    removed,          \* storey s -> elements new_ifc.remove took out
    raised,           \* the exception raised inside the outer try ("none" if none)
    received,         \* the exception that leaves split_by_storey ("none" if none)
    faults,           \* the number of library calls that have raised so far
    \* extract_building_elements, one element of the page
    xpc,                          \* "element" | "done"
    element,                      \* the element: GlobalId, net volume, material associations
    exclude_constituent_volumes,  \* the query flag
    element_data,                 \* the element's record: material_volumes present or not
    invalid_material_fractions,   \* the list of warnings
    totals,                       \* every total_fraction the route computed (history)
    \* MaterialService, called on one element
    svc_element,      \* the element: net and gross volume, named material associations
    svc_called,       \* the methods that have returned
    svc_materials,    \* what get_element_materials returned
    svc_volumes,      \* what get_material_volumes returned, in insertion order
    \* compute_constituent_fractions, one call
    cf_pc,            \* "call" | "returned"
    cf_constituents,  \* constituent_set.MaterialConstituents: the Name of each
    cf_quantities,    \* the quantities of the element's quantity sets, in order
    cf_unit_scale,    \* unit_scale_to_mm
    cf_fractions,     \* the fractions returned, in constituent order
    cf_widths,        \* the widths returned, in constituent order
    cf_matched,       \* the position of each constituent's matched quantity (history)
    \* quantity resolution of one element, one kind of quantity
    res_kind,         \* "volume" | "area" | "dimensions"
    res_element,      \* the element: quantity set and common property sets
    res_cache,        \* the lru_cache entry of get_<kind>_from_basequantities
    prop_cache,       \* the property names get_element_property has cached
    res_returned,     \* function -> the values it has returned (history)
    res_handed,       \* the values at which the cached dictionary was handed out
    \* get_containment_structure, one call
    ct_pc,            \* "call" | "returned"
    ct_element,       \* the element: its ContainedInStructure, if it has the attribute
    ct_structure,     \* the dictionary returned
    \* unit resolution at the start of process_ifc, then one conversion
    un_pc,            \* "open" | "resolved" | "failed" | "converted"
    un_document,      \* the document: its IfcProject and unit assignment
    un_raised,        \* the exception get_project_units raised ("none" if none)
    un_status,        \* the status of the HTTPException raised (0 if none)
    un_length_unit,   \* length_unit
    un_value,         \* the value given to convert_unit_value
    un_converted,     \* what convert_unit_value returned
    \* get_property_values, one call
    pv_pc,            \* "call" | "returned"
    pv_elements,      \* ifc_file.by_type(ifc_class): each element's property sets
    pv_pattern,       \* the property-set part of property_path
    pv_results,       \* the list returned: guid and value of each entry
    \* api_key_middleware, one request
    ak_pc,            \* "request" | "answered"
    ak_request,       \* the request: path, Referer and X-API-Key headers
    ak_user_keys,     \* API_USER_KEYS
    ak_response,      \* the response: status and detail
    ak_passed,        \* whether call_next(request) was called
    \* process_ifc.generate_response, one run
    sp_pc,            \* "start" | "loop" | "done" | "raised"
    sp_total,         \* total_elements
    sp_i,             \* the elements processed so far
    sp_last,          \* the count of elements at which last_progress was set
    sp_lines,         \* the lines yielded, in order
    \* extract_building_elements.process_and_callback, one task
    cb_pc,            \* "start" | "chunks" | "final" | "returned" | "failed"
    cb_config,        \* callback_config: its token, or no configuration
    cb_total,         \* total_elements
    cb_i,             \* the index at which the next chunk starts
    cb_client,        \* the httpx.AsyncClient: "none" | "open" | "closed"
    cb_received,      \* the requests the callback URL received, in order
    cb_lost,          \* the requests that failed in the network
    cb_logged         \* the errors logged

splitVars == <<file, file0, pc, i, output_dir, src_path, src_content, old_ifc, new_ifc,
               inverse_elements, disk, result_files, storey_error, elem_errors,
               added, removed, raised, received, faults>>

extractVars == <<xpc, element, exclude_constituent_volumes, element_data,
                 invalid_material_fractions, totals>>

materialVars == <<svc_element, svc_called, svc_materials, svc_volumes>>

constituentVars == <<cf_pc, cf_constituents, cf_quantities, cf_unit_scale,
                     cf_fractions, cf_widths, cf_matched>>

resolveVars == <<res_kind, res_element, res_cache, prop_cache, res_returned, res_handed>>

containmentVars == <<ct_pc, ct_element, ct_structure>>

unitVars == <<un_pc, un_document, un_raised, un_status, un_length_unit, un_value,
              un_converted>>

propertyValueVars == <<pv_pc, pv_elements, pv_pattern, pv_results>>

apiKeyVars == <<ak_pc, ak_request, ak_user_keys, ak_response, ak_passed>>

streamVars == <<sp_pc, sp_total, sp_i, sp_last, sp_lines>>

callbackVars == <<cb_pc, cb_config, cb_total, cb_i, cb_client, cb_received, cb_lost,
                  cb_logged>>

\* What each component leaves alone: the state of the others.
notSplit == <<extractVars, materialVars, constituentVars, resolveVars, containmentVars,
              unitVars, propertyValueVars, apiKeyVars, streamVars, callbackVars>>
notExtract == <<splitVars, materialVars, constituentVars, resolveVars, containmentVars,
                unitVars, propertyValueVars, apiKeyVars, streamVars, callbackVars>>
notMaterial == <<splitVars, extractVars, constituentVars, resolveVars, containmentVars,
                 unitVars, propertyValueVars, apiKeyVars, streamVars, callbackVars>>
notConstituent == <<splitVars, extractVars, materialVars, resolveVars, containmentVars,
                    unitVars, propertyValueVars, apiKeyVars, streamVars, callbackVars>>
notResolve == <<splitVars, extractVars, materialVars, constituentVars, containmentVars,
                unitVars, propertyValueVars, apiKeyVars, streamVars, callbackVars>>
notContainment == <<splitVars, extractVars, materialVars, constituentVars, resolveVars,
                    unitVars, propertyValueVars, apiKeyVars, streamVars, callbackVars>>
notUnit == <<splitVars, extractVars, materialVars, constituentVars, resolveVars,
             containmentVars, propertyValueVars, apiKeyVars, streamVars, callbackVars>>
notPropertyValue == <<splitVars, extractVars, materialVars, constituentVars,
                      resolveVars, containmentVars, unitVars, apiKeyVars, streamVars,
                      callbackVars>>
notApiKey == <<splitVars, extractVars, materialVars, constituentVars, resolveVars,
               containmentVars, unitVars, propertyValueVars, streamVars, callbackVars>>
notStream == <<splitVars, extractVars, materialVars, constituentVars, resolveVars,
               containmentVars, unitVars, propertyValueVars, apiKeyVars, callbackVars>>
notCallback == <<splitVars, extractVars, materialVars, constituentVars, resolveVars,
                 containmentVars, unitVars, propertyValueVars, apiKeyVars, streamVars>>

----------------------------------------------------------------------------
(* Entities and documents *)

Elems == 1..MaxElems

Ent(k, n) == [k |-> k, n |-> n]

Project == Ent("IfcProject", 0)
Storey(s) == Ent("IfcBuildingStorey", s)
Space == Ent("IfcSpace", 0)
Element(e) == Ent("IfcElement", e)
Rep(e) == Ent("IfcProductDefinitionShape", e)
Style(e) == Ent("IfcStyledItem", e)
RelCont(c) == Ent("IfcRelContainedInSpatialStructure", c.n)
RelProps == Ent("IfcRelDefinesByProperties", 0)
RelAggProject == Ent("IfcRelAggregates", 0)
RelAggStorey == Ent("IfcRelAggregates", 1)
NoContainer == Ent("None", 0)

Containers(n) == {NoContainer} \cup {Storey(s) : s \in 1..n} \cup (IF n >= 1 THEN {Space} ELSE {})

Documents ==
    [n : 0..MaxStoreys, contain : [Elems -> Containers(MaxStoreys)],
     rep : [Elems -> BOOLEAN], props : SUBSET Elems]

\* The documents split_by_storey is given: every element has a representation,
\* and the property relationship is shared by all elements.
SourceDocuments ==
    {d \in Documents : /\ \A e \in Elems : d.contain[e] \in Containers(d.n)
                       /\ \A e \in Elems : d.rep[e]
                       /\ d.props = Elems}

\* RelatingStructure of a containment relationship.
RelatingStructure(rel) == IF rel.n >= 1 THEN Storey(rel.n) ELSE Space

\* The entities a document holds.
Entities(doc) ==
    {Project}
    \cup {Storey(s) : s \in 1..doc.n}
    \cup (IF doc.n >= 1 THEN {Space, RelAggProject, RelAggStorey} ELSE {})
    \cup {Element(e) : e \in Elems}
    \cup {Rep(e) : e \in {x \in Elems : doc.rep[x]}}
    \cup {Style(e) : e \in {x \in Elems : doc.rep[x]}}
    \cup {RelCont(doc.contain[e]) : e \in {x \in Elems : doc.contain[x] # NoContainer}}
    \cup (IF doc.props # {} THEN {RelProps} ELSE {})

\* Forward references of an entity (its attributes that are entities).
Refs(doc, x) ==
    CASE x.k = "IfcElement" -> IF doc.rep[x.n] THEN {Rep(x.n)} ELSE {}
      [] x.k = "IfcStyledItem" -> {Rep(x.n)}
      [] x.k = "IfcRelContainedInSpatialStructure" ->
            {RelatingStructure(x)}
            \cup {Element(e) : e \in {y \in Elems : doc.contain[y] = RelatingStructure(x)}}
      [] x.k = "IfcRelDefinesByProperties" -> {Element(e) : e \in doc.props}
      [] x.k = "IfcRelAggregates" ->
            IF x.n = 0 THEN {Project} \cup {Storey(s) : s \in 1..doc.n}
                       ELSE {Storey(1), Space}
      [] OTHER -> {}

\* file.get_inverse(x): the entities that point at x.
get_inverse(doc, x) == {y \in Entities(doc) : x \in Refs(doc, y)}

\* by_type("IfcBuildingStorey"), in declaration order.
by_type_storey(doc) == [s \in 1..doc.n |-> Storey(s)]

\* by_type("IfcContext") + by_type("IfcProduct").
by_type_elements(doc) ==
    {Project} \cup {Storey(s) : s \in 1..doc.n}
    \cup (IF doc.n >= 1 THEN {Space} ELSE {})
    \cup {Element(e) : e \in Elems}

\* What file.add(x) copies into the target: x and everything it refers to.
AddClosure(doc, x) ==
    LET r1 == {x} \cup Refs(doc, x)
        r2 == r1 \cup UNION {Refs(doc, y) : y \in r1}
    IN  r2 \cup UNION {Refs(doc, y) : y \in r2}

\* element.ContainedInStructure in the source copy.
ContainedInStructureOld(doc, e) ==
    IF doc.contain[e] # NoContainer THEN <<RelCont(doc.contain[e])>> ELSE <<>>

\* element.ContainedInStructure in the target: the containment relationships
\* of the target that refer to the element.
ContainedInStructureNew(doc, ents, e) ==
    IF doc.contain[e] # NoContainer /\ RelCont(doc.contain[e]) \in ents
    THEN <<RelCont(doc.contain[e])>> ELSE <<>>

\* A storey test that ignores the GlobalId.
IsInAnyStorey(cis, storey) ==
    /\ Len(cis) > 0
    /\ RelatingStructure(cis[1]).k = "IfcBuildingStorey"

_is_in_storey(cis, storey) ==
    /\ Len(cis) > 0
    /\ RelatingStructure(cis[1]).k = "IfcBuildingStorey"
    /\ RelatingStructure(cis[1]) = storey


----------------------------------------------------------------------------
(* Faults: the library calls of one pass that raise *)

RECURSIVE SmallSubsets(_, _)
SmallSubsets(S, k) ==
    IF k <= 0 THEN {{}}
    ELSE LET prev == SmallSubsets(S, k - 1)
         IN  prev \cup {F \cup {x} : F \in prev, x \in S}

\* The sets of calls that may raise in a pass: within what is left of the
\* budget, and at most one for an entity (the first one skips it).
FaultSets(points) ==
    {F \in SmallSubsets(points, MaxFaults - faults) :
        \A f, g \in F : f.ent = g.ent => f = g}

Outcome(F, x) ==
    IF \E f \in F : f.ent = x THEN (CHOOSE f \in F : f.ent = x).at ELSE "ok"

----------------------------------------------------------------------------
(* split_by_storey *)

\* The document whose entities the add pass iterates and nulls (line 53, 55).
ElementsFromSelf == "self.file"

ElementsFrom == "old_ifc"

\* element.Representation = None for the elements of `failing` (line 62).
KeepRepresentations(doc, failing) == doc

NullRepresentations(doc, failing) ==
    [doc EXCEPT !.rep = [e \in Elems |-> IF e \in failing THEN FALSE ELSE doc.rep[e]]]

\* The elements that fail the storey test in the source copy (line 61).
FailingElements(doc, s) ==
    {e \in Elems : ~_is_in_storey(ContainedInStructureOld(doc, e), Storey(s))}

\* The entities of the list that pass line 61 and go on to be added.
KeptElements(doc, s) ==
    {x \in by_type_elements(doc) :
        ~(x.k = "IfcElement" /\ x.n \in FailingElements(doc, s))}

\* The calls of the add pass that can raise inside the element try (lines 60-76).
AddFaultPoints(doc, s) ==
    {[ent |-> x, at |-> a] : x \in KeptElements(doc, s), a \in {"add", "get_inverse"}}
    \cup {[ent |-> x, at |-> "traverse"] : x \in {y \in KeptElements(doc, s) : y.k = "IfcElement"}}

\* The styled items the add pass adds for an element (lines 64-71).
StyledItems(doc, x) ==
    IF x.k = "IfcElement" /\ doc.rep[x.n] THEN AddClosure(doc, Style(x.n)) ELSE {}

\* What handling x in the add pass puts into the target (lines 64-72).
AddedBy(doc, x, o) ==
    CASE o = "traverse" -> {}
      [] o = "add" -> StyledItems(doc, x)
      [] OTHER -> StyledItems(doc, x) \cup AddClosure(doc, x)

\* An add pass that collects no inverse entities.
CollectNothing(doc, x, o) == {}

\* inverse_elements.extend(old_ifc.get_inverse(element)) (line 73).
CollectInverse(doc, x, o) == IF o = "ok" THEN get_inverse(doc, x) ELSE {}

\* A prune pass that removes nothing.
PruneNothing(doc, ents, s) == {}

\* The elements the prune pass removes from the target (lines 86-88).
PruneSet(doc, ents, s) ==
    {e \in Elems : /\ Element(e) \in ents
                   /\ ~_is_in_storey(ContainedInStructureNew(doc, ents, e), Storey(s))}

\* A record put in front of the list.
PrependRecord(list, rec) == <<rec>> \o list

\* result_files.append (lines 94-99).
AppendRecord(list, rec) == Append(list, rec)

\* A storey handler that lets the exception go on.
StoreyHandlerRaises == "raise"

\* except Exception as storey_error: ... continue (lines 101-103).
StoreyHandler == "continue"

\* except Exception as e (lines 107-111): shutil is not imported (line 7 imports
\* copyfile only), so shutil.rmtree raises NameError when the directory exists.
OuterHandler(exc, dir) == IF dir = "exists" THEN "NameError" ELSE exc

Absent == [state |-> "absent", ents |-> {}]

\* Leave the storey loop body for the next storey (or the end of the loop).
NextStorey ==
    IF i < file.n THEN pc' = "copy" /\ i' = i + 1
                  ELSE pc' = "return" /\ UNCHANGED i

\* An exception reaches the storey handler at `step`.
StoreyFails(step) ==
    /\ storey_error' = [storey_error EXCEPT ![i] = step]
    /\ IF StoreyHandler = "continue"
       THEN NextStorey /\ UNCHANGED <<raised, received, src_path>>
       ELSE /\ pc' = "raised"
            /\ raised' = "Exception"
            /\ received' = OuterHandler("Exception", output_dir)
            /\ src_path' = "deleted"
            /\ UNCHANGED i

\* The state before split_by_storey runs, the document and position aside.
SplitFields ==
    /\ file0 = file
    /\ i = 0
    /\ output_dir = "none"
    /\ src_path = "none"
    /\ src_content = file
    /\ old_ifc = file
    /\ new_ifc = {}
    /\ inverse_elements = {}
    /\ disk = [s \in 1..MaxStoreys |-> Absent]
    /\ result_files = <<>>
    /\ storey_error = [s \in 1..MaxStoreys |-> "none"]
    /\ elem_errors = [s \in 1..MaxStoreys |-> {}]
    /\ added = [s \in 1..MaxStoreys |-> {}]
    /\ removed = [s \in 1..MaxStoreys |-> {}]
    /\ raised = "none"
    /\ received = "none"
    /\ faults = 0

SplitInit ==
    /\ file \in SourceDocuments
    /\ pc = "start"
    /\ SplitFields

\* The splitter when no split is requested.
SplitIdle ==
    /\ file = [n |-> 0, contain |-> [e \in Elems |-> NoContainer],
               rep |-> [e \in Elems |-> TRUE], props |-> Elems]
    /\ pc = "idle"
    /\ SplitFields

\* Lines 18-38: the output directory, the temporary copy, the storey check.
Begin ==
    /\ UNCHANGED notSplit
    /\ pc = "start"
    /\ \/ /\ faults < MaxFaults /\ faults' = faults + 1          \* tempfile.mkdtemp raises
          /\ raised' = "OSError"
          /\ received' = OuterHandler("OSError", "none")
          /\ pc' = "raised"
          /\ UNCHANGED <<output_dir, src_path, src_content, i>>
       \/ /\ faults < MaxFaults /\ faults' = faults + 1          \* self.file.write(src_path) raises
          /\ output_dir' = "exists"
          /\ src_path' = "deleted"
          /\ raised' = "OSError"
          /\ received' = OuterHandler("OSError", "exists")
          /\ pc' = "raised"
          /\ UNCHANGED <<src_content, i>>
       \/ /\ Len(by_type_storey(file)) = 0      \* not storeys: raise ValueError
          /\ output_dir' = "exists"
          /\ src_content' = file
          /\ src_path' = "deleted"
          /\ raised' = "ValueError"
          /\ received' = OuterHandler("ValueError", "exists")
          /\ pc' = "raised"
          /\ UNCHANGED <<i, faults>>
       \/ /\ Len(by_type_storey(file)) > 0
          /\ output_dir' = "exists"
          /\ src_content' = file
          /\ src_path' = "exists"
          /\ pc' = "copy"
          /\ i' = 1
          /\ UNCHANGED <<raised, received, faults>>
    /\ UNCHANGED <<file, file0, old_ifc, new_ifc, inverse_elements, disk, result_files,
                   storey_error, elem_errors, added, removed>>

\* Lines 42-55: the file name, copyfile, open, the empty target, the element list.
CopyOpen ==
    /\ UNCHANGED notSplit
    /\ pc = "copy"
    /\ \/ /\ faults < MaxFaults /\ faults' = faults + 1          \* copyfile raises
          /\ StoreyFails("copy")
          /\ UNCHANGED <<disk, old_ifc, new_ifc, inverse_elements>>
       \/ /\ faults < MaxFaults /\ faults' = faults + 1          \* ifcopenshell.open raises
          /\ disk' = [disk EXCEPT ![i] = [state |-> "copy", ents |-> Entities(src_content)]]
          /\ StoreyFails("open")
          /\ UNCHANGED <<old_ifc, new_ifc, inverse_elements>>
       \/ /\ faults < MaxFaults /\ faults' = faults + 1          \* by_type raises, outside the element try
          /\ disk' = [disk EXCEPT ![i] = [state |-> "copy", ents |-> Entities(src_content)]]
          /\ old_ifc' = src_content
          /\ new_ifc' = {}
          /\ StoreyFails("add")
          /\ UNCHANGED inverse_elements
       \/ /\ disk' = [disk EXCEPT ![i] = [state |-> "copy", ents |-> Entities(src_content)]]
          /\ old_ifc' = src_content
          /\ new_ifc' = {}
          /\ inverse_elements' = {}
          /\ pc' = "add"
          /\ UNCHANGED <<i, storey_error, raised, received, src_path, faults>>
    /\ UNCHANGED <<file, file0, output_dir, src_content, result_files, elem_errors,
                   added, removed>>

\* Lines 57-76: the add pass over elements.
AddPass ==
    /\ UNCHANGED notSplit
    /\ pc = "add"
    /\ \E F \in FaultSets(AddFaultPoints(old_ifc, i)) :
         LET from == IF ElementsFrom = "old_ifc" THEN old_ifc ELSE file
             cur == NullRepresentations(from, FailingElements(from, i))
             kept == KeptElements(from, i)
         IN  /\ old_ifc' = IF ElementsFrom = "old_ifc" THEN cur ELSE old_ifc
             /\ file' = IF ElementsFrom = "old_ifc" THEN file ELSE cur
             /\ new_ifc' = UNION {AddedBy(cur, x, Outcome(F, x)) : x \in kept}
             /\ inverse_elements' =
                    UNION {CollectInverse(cur, x, Outcome(F, x)) : x \in kept}
             /\ added' = [added EXCEPT
                    ![i] = {x \in kept : Outcome(F, x) \in {"ok", "get_inverse"}}]
             /\ elem_errors' = [elem_errors EXCEPT ![i] = F]
             /\ faults' = faults + Cardinality(F)
    /\ pc' = "closure"
    /\ UNCHANGED <<file0, i, output_dir, src_path, src_content, disk, result_files,
                   storey_error, removed, raised, received>>

\* Lines 78-83: the closure pass over inverse_elements.
ClosurePass ==
    /\ UNCHANGED notSplit
    /\ pc = "closure"
    /\ \E F \in FaultSets({[ent |-> y, at |-> "add_inverse"] : y \in inverse_elements}) :
         /\ new_ifc' = new_ifc \cup
                UNION {AddClosure(old_ifc, y) :
                         y \in {z \in inverse_elements : Outcome(F, z) = "ok"}}
         /\ elem_errors' = [elem_errors EXCEPT ![i] = @ \cup F]
         /\ faults' = faults + Cardinality(F)
    /\ pc' = "prune"
    /\ UNCHANGED <<file, file0, i, output_dir, src_path, src_content, old_ifc,
                   inverse_elements, disk, result_files, storey_error, added, removed,
                   raised, received>>

\* Lines 85-88: the prune pass; new_ifc.remove is not inside a try of its own.
PrunePass ==
    /\ UNCHANGED notSplit
    /\ pc = "prune"
    /\ LET out == PruneSet(old_ifc, new_ifc, i)
       IN  \/ /\ new_ifc' = new_ifc \ {Element(e) : e \in out}
              /\ removed' = [removed EXCEPT ![i] = out]
              /\ pc' = "write"
              /\ UNCHANGED <<i, storey_error, raised, received, src_path, faults>>
           \/ /\ faults < MaxFaults /\ faults' = faults + 1      \* new_ifc.remove(element) raises
              /\ \E e \in out :
                   /\ new_ifc' = new_ifc \ {Element(x) : x \in {y \in out : y < e}}
                   /\ removed' = [removed EXCEPT ![i] = {y \in out : y < e}]
              /\ StoreyFails("prune")
    /\ UNCHANGED <<file, file0, output_dir, src_content, old_ifc, inverse_elements,
                   disk, result_files, elem_errors, added>>

\* Lines 90-99: write the target and append the record.
WriteRecord ==
    /\ UNCHANGED notSplit
    /\ pc = "write"
    /\ \/ /\ disk' = [disk EXCEPT ![i] = [state |-> "split", ents |-> new_ifc]]
          /\ result_files' = AppendRecord(result_files, [storey_id |-> i, file_path |-> i])
          /\ NextStorey
          /\ UNCHANGED <<storey_error, raised, received, src_path, faults>>
       \/ /\ faults < MaxFaults /\ faults' = faults + 1          \* new_ifc.write raises
          /\ StoreyFails("write")
          /\ UNCHANGED <<disk, result_files>>
    /\ UNCHANGED <<file, file0, output_dir, src_content, old_ifc, new_ifc,
                   inverse_elements, elem_errors, added, removed>>

\* Line 105 and the finally clause (lines 113-115).
Return ==
    /\ UNCHANGED notSplit
    /\ pc = "return"
    /\ pc' = "returned"
    /\ src_path' = "deleted"
    /\ UNCHANGED <<file, file0, i, output_dir, src_content, old_ifc, new_ifc,
                   inverse_elements, disk, result_files, storey_error, elem_errors,
                   added, removed, raised, received, faults>>

----------------------------------------------------------------------------
(* extract_building_elements: material fractions of one element *)

\* A fraction is an exact rational with a positive denominator.
Frac(n, d) == [num |-> n, den |-> d]

RECURSIVE GCD(_, _)
GCD(a, b) == IF b = 0 THEN a ELSE GCD(b, a % b)

LCM(a, b) == (a \div GCD(a, b)) * b

AddFrac(a, b) ==
    LET l == LCM(a.den, b.den)
    IN  Frac(a.num * (l \div a.den) + b.num * (l \div b.den), l)

\* Exact addition is associative: a sum is taken by halves.
RECURSIVE SumFracRange(_, _, _)
SumFracRange(fs, lo, hi) ==
    IF lo > hi THEN Frac(0, 1)
    ELSE IF lo = hi THEN fs[lo]
    ELSE LET mid == (lo + hi) \div 2
         IN  AddFrac(SumFracRange(fs, lo, mid), SumFracRange(fs, mid + 1, hi))

\* sum(...) / total_fraction += fraction, starting from 0.
SumFrac(fs) == SumFracRange(fs, 1, Len(fs))

RECURSIVE SumNatRange(_, _, _)
SumNatRange(ws, lo, hi) ==
    IF lo > hi THEN 0
    ELSE IF lo = hi THEN ws[lo]
    ELSE LET mid == (lo + hi) \div 2
         IN  SumNatRange(ws, lo, mid) + SumNatRange(ws, mid + 1, hi)

SumNat(ws) == SumNatRange(ws, 1, Len(ws))

\* round(value, 5) rounds to the nearest multiple of 1/10^5.
FractionDigits == 5
Digits5 == 10 ^ FractionDigits

\* abs(total_fraction - 1.0) <= 0.001, with 0.001 as 1/Tolerance.
Tolerance == 1000

Abs(x) == IF x < 0 THEN -x ELSE x

WithinTolerance(total) == Abs(total.num - total.den) <= total.den \div Tolerance

\* _round_value(value, 5): to the nearest, ties to the even digit; a value
\* that is a multiple of 1/10^5 is returned as it is.
_round_value(f) ==
    LET q == (Digits5 * f.num) \div f.den
        r == (Digits5 * f.num) % f.den
    IN  IF Digits5 % f.den = 0 THEN Frac(f.num * (Digits5 \div f.den), Digits5)
        ELSE Frac(IF 2 * r < f.den THEN q
                  ELSE IF 2 * r > f.den THEN q + 1
                  ELSE IF q % 2 = 0 THEN q ELSE q + 1, Digits5)

_round_fraction(f) == _round_value(f)

\* RelatingMaterial of an IfcRelAssociatesMaterial.  `layers` holds the
\* LayerThickness of each layer of a layer-set usage, or the width of each
\* constituent's matched quantity (0 when none matched) of a constituent set.
Material(kind, layers) == [kind |-> kind, layers |-> layers]

RECURSIVE SeqsUpTo(_, _)
SeqsUpTo(S, n) ==
    IF n = 0 THEN {<<>>}
    ELSE LET shorter == SeqsUpTo(S, n - 1)
         IN  shorter \cup {Append(w, x) : w \in {v \in shorter : Len(v) = n - 1}, x \in S}

Thicknesses == SeqsUpTo(0..MaxThickness, MaxLayers) \ {<<>>}

SmallMaterials ==
    {Material("IfcMaterial", <<>>)}
    \cup {Material("IfcMaterialLayerSetUsage", t) : t \in Thicknesses}
    \cup {Material("IfcMaterialConstituentSet", w) : w \in Thicknesses}

\* Constituent sets of many constituents, none with a matched quantity.
LargeMaterials ==
    {Material("IfcMaterialConstituentSet", [k \in 1..n |-> 0]) :
        n \in (MaxLayers + 1)..MaxConstituents}

\* element.HasAssociations: none, one or two material associations.
Associations ==
    {<<>>} \cup {<<m>> : m \in SmallMaterials \cup LargeMaterials}
           \cup {<<m1, m2>> : m1 \in SmallMaterials, m2 \in SmallMaterials}

NetVolumes == {[has |-> FALSE, val |-> 0], [has |-> TRUE, val |-> 0], [has |-> TRUE, val |-> 10]}

Elements == [GlobalId : 1..MaxElementIds, net : NetVolumes, HasAssociations : Associations]

\* get_element_materials(element): every layer and constituent has a Material.
RECURSIVE get_element_materials(_)
get_element_materials(assocs) ==
    IF assocs = <<>> THEN 0
    ELSE (IF Head(assocs).kind = "IfcMaterial" THEN 1 ELSE Len(Head(assocs).layers))
         + get_element_materials(Tail(assocs))

\* Equal shares whatever the widths.
EqualConstituentFractions(m) == [k \in 1..Len(m.layers) |-> Frac(1, Len(m.layers))]

\* compute_constituent_fractions: the fractions in constituent order.
compute_constituent_fractions(m) ==
    LET n == Len(m.layers)
        total_width_mm == SumNat(m.layers)
    IN  IF total_width_mm = 0
        THEN [k \in 1..n |-> Frac(1, n)]
        ELSE [k \in 1..n |-> Frac(m.layers[k], total_width_mm)]

\* Every layer given the same share, whatever its thickness.
EqualLayerFractions(m) ==
    [k \in 1..Len(m.layers) |-> _round_fraction(Frac(1, Len(m.layers)))]

_process_layer_set(m) ==
    LET total_thickness == SumNat(m.layers)
    IN  [k \in 1..Len(m.layers) |->
            _round_fraction(IF total_thickness # 0
                            THEN Frac(m.layers[k], total_thickness) ELSE Frac(0, 1))]

_process_constituent_set(m) ==
    [k \in 1..Len(m.layers) |-> Frac(1, Len(m.layers))]

\* get_material_volumes(element): the fractions of every layer of every
\* association, one entry each (the keys are made unique).
RECURSIVE get_material_volumes(_)
get_material_volumes(assocs) ==
    IF assocs = <<>> THEN <<>>
    ELSE LET m == Head(assocs)
         IN  (CASE m.kind = "IfcMaterialLayerSetUsage" -> _process_layer_set(m)
                [] m.kind = "IfcMaterialConstituentSet" -> _process_constituent_set(m)
                [] OTHER -> <<Frac(1, 1)>>)
             \o get_material_volumes(Tail(assocs))

Warning(e, total) == [element_id |-> e.GlobalId, element_type |-> "IfcElement",
                      total_fraction |-> total]

NoVolumes == [present |-> FALSE, fractions |-> <<>>]
Volumes(fs) == [present |-> TRUE, fractions |-> fs]

Outputs(mv, w, t) == [material_volumes |-> mv, warnings |-> w, totals |-> t]

\* Lines 446-457: each exposed fraction is _round_value(info["fraction"], 5).
ExposeRounded(fs) == [k \in 1..Len(fs) |-> _round_value(fs[k])]

\* The constituent loop, lines 369-416, from association k on.
RECURSIVE ConstituentVolumes(_, _, _)
ConstituentVolumes(e, k, out) ==
    IF k > Len(e.HasAssociations) THEN out
    ELSE LET m == e.HasAssociations[k]
             fs == compute_constituent_fractions(m)
             total_fraction == SumFrac(fs)
         IN  IF m.kind = "IfcMaterialConstituentSet" /\ fs # <<>>
             THEN ConstituentVolumes(e, k + 1,
                    IF WithinTolerance(total_fraction)
                    THEN Outputs(Volumes(fs), out.warnings,
                                 Append(out.totals, total_fraction))
                    ELSE Outputs(NoVolumes,
                                 Append(out.warnings, Warning(e, total_fraction)),
                                 Append(out.totals, total_fraction)))
             ELSE ConstituentVolumes(e, k + 1, out)

\* The fallback, lines 417-463.
StandardVolumes(e, out) ==
    LET material_volumes == get_material_volumes(e.HasAssociations)
        total_fraction == SumFrac(material_volumes)
    IN  IF out.material_volumes.present \/ material_volumes = <<>> THEN out
        ELSE IF WithinTolerance(total_fraction)
        THEN Outputs(Volumes(ExposeRounded(material_volumes)), out.warnings,
                     Append(out.totals, total_fraction))
        ELSE Outputs(NoVolumes, Append(out.warnings, Warning(e, total_fraction)),
                     Append(out.totals, total_fraction))

\* Lines 354-463 for one element.
MaterialVolumes(e, exclude_cv) ==
    LET none == Outputs(NoVolumes, <<>>, <<>>)
        element_volume == e.net.has /\ e.net.val # 0
    IN  IF get_element_materials(e.HasAssociations) = 0 THEN none
        ELSE StandardVolumes(e, IF ~exclude_cv /\ element_volume
                                THEN ConstituentVolumes(e, 1, none) ELSE none)

ExtractInit ==
    /\ xpc = "element"
    /\ element \in Elements
    /\ exclude_constituent_volumes \in BOOLEAN
    /\ element_data = NoVolumes
    /\ invalid_material_fractions = <<>>
    /\ totals = <<>>

ExtractElement ==
    /\ xpc = "element"
    /\ LET out == MaterialVolumes(element, exclude_constituent_volumes)
       IN  /\ element_data' = out.material_volumes
           /\ invalid_material_fractions' = out.warnings
           /\ totals' = out.totals
    /\ xpc' = "done"
    /\ UNCHANGED <<element, exclude_constituent_volumes>>
    /\ UNCHANGED notExtract

\* The route when no request is being served.
ExtractIdle ==
    /\ xpc = "idle"
    /\ element = [GlobalId |-> 1, net |-> [has |-> FALSE, val |-> 0], HasAssociations |-> <<>>]
    /\ exclude_constituent_volumes = FALSE
    /\ element_data = NoVolumes
    /\ invalid_material_fractions = <<>>
    /\ totals = <<>>

----------------------------------------------------------------------------
(* MaterialService: names, volumes and keys *)

\* Material names; the second has the shape of a disambiguated key.
MaterialNames == {"X", "X (1)"}

\* A material association with the Material.Name of each layer or constituent
\* (of the material itself for an IfcMaterial).
NamedMaterial(kind, layers, names) == [kind |-> kind, layers |-> layers, names |-> names]

NamesFor(n) == {w \in SeqsUpTo(MaterialNames, n) : Len(w) = n}

NamedMaterials ==
    {NamedMaterial("IfcMaterial", <<>>, w) : w \in NamesFor(1)}
    \cup UNION {{NamedMaterial("IfcMaterialLayerSetUsage", t, w) : w \in NamesFor(Len(t))} :
                    t \in Thicknesses}
    \cup {NamedMaterial("IfcMaterialConstituentSet", [k \in 1..Len(w) |-> 0], w) :
            w \in SeqsUpTo(MaterialNames, MaxLayers) \ {<<>>}}

SimpleMaterials == {m \in NamedMaterials : Len(m.names) = 1}

\* The wall of the layered scenario: thicknesses 0.02 and 0.18, in hundredths.
ScenarioWall == NamedMaterial("IfcMaterialLayerSetUsage", <<2, 18>>, <<"X", "X (1)">>)

\* element.HasAssociations: none, one or two material associations.
NamedAssociations ==
    {<<>>, <<ScenarioWall>>}
    \cup {<<m>> : m \in NamedMaterials}
    \cup {<<m1, m2>> : m1 \in NamedMaterials, m2 \in SimpleMaterials}

GrossVolumes == {[has |-> FALSE, val |-> 0], [has |-> TRUE, val |-> 0], [has |-> TRUE, val |-> 5]}

ServiceElements == [net : NetVolumes, gross : GrossVolumes, HasAssociations : NamedAssociations]

\* get_element_materials(element): the names, in the order encountered.
RECURSIVE element_material_names(_)
element_material_names(assocs) ==
    IF assocs = <<>> THEN <<>>
    ELSE Head(assocs).names \o element_material_names(Tail(assocs))

\* `x or y`: Python truthiness of an optional number.
Truthy(v) == v.has /\ v.val # 0

\* Line 103: volumes.get("net") or volumes.get("gross") or 0.0.
total_volume(e) ==
    IF Truthy(e.net) THEN e.net.val
    ELSE IF Truthy(e.gross) THEN e.gross.val
    ELSE 0

\* The "volume" of each entry of _process_layer_set, _process_constituent_set
\* and the IfcMaterial branch, for total volume V.
layer_volumes(m, V) ==
    CASE m.kind = "IfcMaterialLayerSetUsage" ->
            LET total_thickness == SumNat(m.layers)
            IN  [k \in 1..Len(m.layers) |->
                    _round_value(IF V # 0 /\ total_thickness # 0
                                 THEN Frac(V * m.layers[k], total_thickness)
                                 ELSE Frac(0, 1))]
      [] m.kind = "IfcMaterialConstituentSet" ->
            [k \in 1..Len(m.layers) |-> Frac(V, Len(m.layers))]
      [] OTHER -> <<Frac(V, 1)>>

\* get_layer_volumes_and_materials: name, fraction and volume of every layer
\* of every association.
RECURSIVE get_layer_volumes_and_materials(_, _)
get_layer_volumes_and_materials(assocs, V) ==
    IF assocs = <<>> THEN <<>>
    ELSE LET m == Head(assocs)
             fs == get_material_volumes(<<m>>)
             vs == layer_volumes(m, V)
         IN  [k \in 1..Len(fs) |-> [name |-> m.names[k], fraction |-> fs[k], volume |-> vs[k]]]
             \o get_layer_volumes_and_materials(Tail(assocs), V)

KeysOf(entries) == {entries[k].key : k \in 1..Len(entries)}

\* A key that is the material name, whatever keys the map holds.
PlainKey(name, keys, counter) == name

\* Lines 123-127: key = material_name; counter = 1; while key in
\* material_volumes: key = f"{material_name} ({counter})"; counter += 1.
\* `counter` 0 stands for the plain name.
RECURSIVE UniqueKey(_, _, _)
UniqueKey(name, keys, counter) ==
    LET key == IF counter = 0 THEN name ELSE name \o " (" \o ToString(counter) \o ")"
    IN  IF key \in keys THEN UniqueKey(name, keys, counter + 1) ELSE key

\* Lines 107-142: the map, as the sequence of its entries in insertion order.
RECURSIVE MaterialVolumesMap(_, _)
MaterialVolumesMap(material_layers, n) ==
    IF n = 0 THEN <<>>
    ELSE LET before == MaterialVolumesMap(material_layers, n - 1)
             layer == material_layers[n]
         IN  Append(before, [key |-> UniqueKey(layer.name, KeysOf(before), 0),
                             fraction |-> layer.fraction,
                             volume |-> _round_value(layer.volume)])

ServiceInit ==
    /\ svc_element \in ServiceElements
    /\ svc_called = {}
    /\ svc_materials = <<>>
    /\ svc_volumes = <<>>

\* MaterialService.get_element_materials(element).
GetElementMaterials ==
    /\ UNCHANGED notMaterial
    /\ "get_element_materials" \notin svc_called
    /\ svc_called' = svc_called \cup {"get_element_materials"}
    /\ svc_materials' = element_material_names(svc_element.HasAssociations)
    /\ UNCHANGED <<svc_element, svc_volumes>>

\* MaterialService.get_material_volumes(element).
GetMaterialVolumes ==
    /\ UNCHANGED notMaterial
    /\ "get_material_volumes" \notin svc_called
    /\ svc_called' = svc_called \cup {"get_material_volumes"}
    /\ LET material_layers == get_layer_volumes_and_materials(
                                  svc_element.HasAssociations, total_volume(svc_element))
       IN  svc_volumes' = MaterialVolumesMap(material_layers, Len(material_layers))
    /\ UNCHANGED <<svc_element, svc_materials>>

\* The service when no element is being resolved.
ServiceIdle ==
    /\ svc_element = [net |-> [has |-> FALSE, val |-> 0], gross |-> [has |-> FALSE, val |-> 0],
                      HasAssociations |-> <<>>]
    /\ svc_called = {"idle"}
    /\ svc_materials = <<>>
    /\ svc_volumes = <<>>

----------------------------------------------------------------------------
(* compute_constituent_fractions: matching constituents to quantities *)

\* A Name attribute that is None.
NoName == "<None>"

\* Names as they are written in a document.
RawNames == {"A", " a ", NoName}

\* (name).strip().lower() on the names that occur.
StripLower(name) ==
    CASE name = "A" -> "a"
      [] name = " a " -> "a"
      [] name = "Width" -> "width"
      [] name = " WIDTH " -> "width"
      [] name = "Height" -> "height"
      [] name = "Unnamed Constituent" -> "unnamed constituent"
      [] OTHER -> name

\* Line 43: (constituent.Name or "Unnamed Constituent").strip().lower().
ConstituentName(raw) == StripLower(IF raw = NoName THEN "Unnamed Constituent" ELSE raw)

\* Lines 34 and 54: (q.Name or '').strip().lower().
QuantityName(raw) == StripLower(IF raw = NoName THEN "" ELSE raw)

\* A sub-quantity of a complex quantity.
SubQuantity(length, name, value) == [length |-> length, Name |-> name, LengthValue |-> value]

\* matched_quantity.HasQuantities.
SubQuantityLists ==
    {<<>>}
    \cup {<<SubQuantity(TRUE, "Width", w)>> : w \in 1..MaxThickness}
    \cup {<<SubQuantity(TRUE, "Height", MaxThickness), SubQuantity(TRUE, " WIDTH ", 1)>>,
          <<SubQuantity(FALSE, "Width", MaxThickness), SubQuantity(TRUE, "Width", 1)>>,
          <<SubQuantity(TRUE, "Width", 1), SubQuantity(TRUE, "Width", MaxThickness)>>}

\* A quantity of an IfcElementQuantity of the element: complex or not.
PhysicalQuantities ==
    [complex : {TRUE}, Name : RawNames, HasQuantities : SubQuantityLists]
    \cup [complex : {FALSE}, Name : RawNames, HasQuantities : {<<>>}]

\* unit_scale_to_mm: millimetres or metres.
UnitScales == {1, 1000}

\* Lines 53-57: the value of the first IfcQuantityLength named 'width', or 0.
RECURSIVE WidthOf(_, _)
WidthOf(subs, unit_scale_to_mm) ==
    IF subs = <<>> THEN 0
    ELSE IF Head(subs).length /\ QuantityName(Head(subs).Name) = "width"
         THEN Head(subs).LengthValue * unit_scale_to_mm
         ELSE WidthOf(Tail(subs), unit_scale_to_mm)

\* Lines 31-35: quantity_name_map[name], as the positions in `quantities` of
\* the complex quantities of that name, in order of appearance.
RECURSIVE QuantitiesWithName(_, _, _)
QuantitiesWithName(qs, name, k) ==
    IF k > Len(qs) THEN <<>>
    ELSE (IF qs[k].complex /\ QuantityName(qs[k].Name) = name THEN <<k>> ELSE <<>>)
         \o QuantitiesWithName(qs, name, k + 1)

\* No count kept: every constituent of a name takes the first quantity of
\* that name.
NoOccurrencesBefore(cs, k) == 0

\* Lines 44-45: count, the number of earlier constituents of the same name.
OccurrencesBefore(cs, k) ==
    Cardinality({j \in 1..(k - 1) : ConstituentName(cs[j]) = ConstituentName(cs[k])})

\* Lines 47-59 for constituent k: the position of the matched quantity (0 if
\* none).
MatchedQuantity(cs, qs, k) ==
    LET count == OccurrencesBefore(cs, k)
        quantities_with_name == QuantitiesWithName(qs, ConstituentName(cs[k]), 1)
    IN  IF count < Len(quantities_with_name) THEN quantities_with_name[count + 1] ELSE 0

\* constituent_widths, in constituent order.
ConstituentWidths(cs, qs, unit_scale_to_mm) ==
    [k \in 1..Len(cs) |->
        LET q == MatchedQuantity(cs, qs, k)
        IN  IF q = 0 THEN 0 ELSE WidthOf(qs[q].HasQuantities, unit_scale_to_mm)]

ConstituentInit ==
    /\ cf_pc = "call"
    /\ cf_constituents \in SeqsUpTo(RawNames, MaxLayers)
    /\ cf_quantities \in SeqsUpTo(PhysicalQuantities, MaxLayers)
    /\ cf_unit_scale \in UnitScales
    /\ cf_fractions = <<>>
    /\ cf_widths = <<>>
    /\ cf_matched = <<>>

\* compute_constituent_fractions(model, constituent_set, [element], unit_scale).
ComputeConstituentFractions ==
    /\ UNCHANGED notConstituent
    /\ cf_pc = "call"
    /\ cf_pc' = "returned"
    /\ LET widths == ConstituentWidths(cf_constituents, cf_quantities, cf_unit_scale)
       IN  IF cf_constituents = <<>>
           THEN cf_fractions' = <<>> /\ cf_widths' = <<>> /\ cf_matched' = <<>>
           ELSE /\ cf_widths' = widths
                /\ cf_fractions' = compute_constituent_fractions(
                                       Material("IfcMaterialConstituentSet", widths))
                /\ cf_matched' = [k \in 1..Len(cf_constituents) |->
                                     MatchedQuantity(cf_constituents, cf_quantities, k)]
    /\ UNCHANGED <<cf_constituents, cf_quantities, cf_unit_scale>>

\* compute_constituent_fractions when it is not called.
ConstituentIdle ==
    /\ cf_pc = "idle"
    /\ cf_constituents = <<>>
    /\ cf_quantities = <<>>
    /\ cf_unit_scale = 1
    /\ cf_fractions = <<>>
    /\ cf_widths = <<>>
    /\ cf_matched = <<>>

----------------------------------------------------------------------------
(* Quantity resolution (quantities.py, properties.py) for one element *)

\* An optional float.
Some(v) == [has |-> TRUE, val |-> v]
None == [has |-> FALSE, val |-> 0]

\* The keys of the dictionary each kind of quantity resolves to.
FieldsOf(kind) ==
    IF kind = "dimensions" THEN {"length", "width", "height"} ELSE {"net", "gross"}

\* The order of the assignments of lines 138-140 (and 101-102, 119-120).
FieldOrder(kind) ==
    IF kind = "dimensions" THEN <<"length", "width", "height">> ELSE <<"net", "gross">>

\* A property value as get_pset returns it: None, a number or a text.
NoValue == [t |-> "none", v |-> 0]
Number(v) == [t |-> "num", v |-> v]
Text == [t |-> "text", v |-> 0]

\* The values of the quantity set: the quantity is missing, 0.0 or 2.0.
QuantityValues == {None, Some(0), Some(2)}
TypeCommonValues == {NoValue, Number(3), Text}
ElementCommonValues == {NoValue, Number(4)}

\* The element: its quantity set, Pset_<Type>Common and Pset_ElementCommon,
\* each by the key of the field it feeds.
ResolvedElements(kind) ==
    [Quantities : [FieldsOf(kind) -> QuantityValues],
     TypeCommon : [FieldsOf(kind) -> TypeCommonValues],
     ElementCommon : [FieldsOf(kind) -> ElementCommonValues]]

\* Python truthiness of a property value.
TruthyValue(p) == p.t = "text" \/ (p.t = "num" /\ p.v # 0)

\* get_element_property: get_pset(Pset_<Type>Common) or get_pset(Pset_ElementCommon).
get_element_property(e, f) ==
    IF TruthyValue(e.TypeCommon[f]) THEN e.TypeCommon[f] ELSE e.ElementCommon[f]

\* get_*_from_basequantities, uncached: the dictionary built from the
\* quantity set.
from_basequantities(e) == e.Quantities

\* `float(x) if x else None` for a value float() accepts.
Coerced(p) == IF TruthyValue(p) THEN Some(p.v) ELSE None

\* float() raises ValueError.
Uncoercible(p) == p.t = "text"

\* Lines 94 and 112: volumes["net"] is not None or volumes["gross"] is not None.
AnyPresent(d) == \E f \in DOMAIN d : d[f].has

\* Line 130: any(dimensions.values()).
AnyTruthy(d) == \E f \in DOMAIN d : Truthy(d[f])

\* Lines 97-107 and 115-125: both fields from the properties, or both None
\* when a float() raises.
VolumeFallback(e, kind) ==
    IF \E f \in FieldsOf(kind) : Uncoercible(get_element_property(e, f))
    THEN [f \in FieldsOf(kind) |-> None]
    ELSE [f \in FieldsOf(kind) |-> Coerced(get_element_property(e, f))]

\* Lines 133-142: the assignments made before the first float() that raises.
DimensionsFallback(e, d) ==
    LET order == FieldOrder("dimensions")
        failing == {k \in 1..Len(order) : Uncoercible(get_element_property(e, order[k]))}
    IN  [f \in DOMAIN d |->
            LET k == CHOOSE j \in 1..Len(order) : order[j] = f
            IN  IF \E j \in failing : j <= k THEN d[f]
                ELSE Coerced(get_element_property(e, f))]

NoEntry == [present |-> FALSE, value |-> <<>>]
Entry(v) == [present |-> TRUE, value |-> v]

ResolveInit ==
    /\ res_kind \in {"volume", "area", "dimensions"}
    /\ res_element \in ResolvedElements(res_kind)
    /\ res_cache = NoEntry
    /\ prop_cache = {}
    /\ res_returned = [fn \in {"basequantities", "properties"} |-> {}]
    /\ res_handed = {}

\* The lru_cache of get_*_from_basequantities: the cached dictionary if there
\* is one, else a new one.
CachedBase == IF res_cache.present THEN res_cache.value ELSE from_basequantities(res_element)

\* get_volume_from_basequantities, get_area_from_basequantities and
\* get_dimensions_from_basequantities: the cached dictionary is returned.
CallBasequantities ==
    /\ res_cache' = Entry(CachedBase)
    /\ res_returned' = [res_returned EXCEPT !["basequantities"] = @ \cup {CachedBase}]
    /\ res_handed' = res_handed \cup {CachedBase}
    /\ UNCHANGED <<res_kind, res_element, prop_cache>>

GetVolumeFromBasequantities ==
    /\ UNCHANGED notResolve
    /\ res_kind = "volume"
    /\ CallBasequantities

GetAreaFromBasequantities ==
    /\ UNCHANGED notResolve
    /\ res_kind = "area"
    /\ CallBasequantities

GetDimensionsFromBasequantities ==
    /\ UNCHANGED notResolve
    /\ res_kind = "dimensions"
    /\ CallBasequantities

\* get_volume_from_properties and get_area_from_properties: the cached
\* dictionary, or a new one from the properties.
CallVolumeFromProperties ==
    IF AnyPresent(CachedBase)
    THEN /\ res_cache' = Entry(CachedBase)
         /\ res_returned' = [res_returned EXCEPT !["properties"] = @ \cup {CachedBase}]
         /\ res_handed' = res_handed \cup {CachedBase}
         /\ UNCHANGED <<res_kind, res_element, prop_cache>>
    ELSE /\ res_cache' = Entry(CachedBase)
         /\ prop_cache' = prop_cache \cup FieldsOf(res_kind)
         /\ res_returned' = [res_returned EXCEPT !["properties"] =
                                @ \cup {VolumeFallback(res_element, res_kind)}]
         /\ UNCHANGED <<res_kind, res_element, res_handed>>

GetVolumeFromProperties ==
    /\ UNCHANGED notResolve
    /\ res_kind = "volume"
    /\ CallVolumeFromProperties

GetAreaFromProperties ==
    /\ UNCHANGED notResolve
    /\ res_kind = "area"
    /\ CallVolumeFromProperties

\* get_dimensions_from_properties: the cached dictionary, after the fallback
\* has assigned into it when none of its values is truthy.
GetDimensionsFromProperties ==
    /\ UNCHANGED notResolve
    /\ res_kind = "dimensions"
    /\ LET dimensions == IF AnyTruthy(CachedBase) THEN CachedBase
                         ELSE DimensionsFallback(res_element, CachedBase)
       IN  /\ res_cache' = Entry(dimensions)
           /\ res_returned' = [res_returned EXCEPT !["properties"] = @ \cup {dimensions}]
           /\ res_handed' = res_handed \cup {dimensions}
    /\ prop_cache' = IF AnyTruthy(CachedBase) THEN prop_cache
                     ELSE prop_cache \cup FieldsOf(res_kind)
    /\ UNCHANGED <<res_kind, res_element>>

\* get_element_property(element, name), called directly.
GetElementProperty ==
    /\ UNCHANGED notResolve
    /\ \E f \in FieldsOf(res_kind) : prop_cache' = prop_cache \cup {f}
    /\ UNCHANGED <<res_kind, res_element, res_cache, res_returned, res_handed>>

\* clear_quantity_caches: the cached dictionaries are dropped (those handed
\* out stay as they are from then on), and clear_property_caches is called.
ClearQuantityCaches ==
    /\ UNCHANGED notResolve
    /\ res_cache' = NoEntry
    /\ res_handed' = {}
    /\ prop_cache' = {}
    /\ UNCHANGED <<res_kind, res_element, res_returned>>

\* clear_property_caches.
ClearPropertyCaches ==
    /\ UNCHANGED notResolve
    /\ prop_cache' = {}
    /\ UNCHANGED <<res_kind, res_element, res_cache, res_returned, res_handed>>

\* The resolution functions when not called.
ResolveIdle ==
    /\ res_kind = "idle"
    /\ res_element = [Quantities |-> <<>>, TypeCommon |-> <<>>, ElementCommon |-> <<>>]
    /\ res_cache = NoEntry
    /\ prop_cache = {}
    /\ res_returned = [fn \in {"basequantities", "properties"} |-> {}]
    /\ res_handed = {}

----------------------------------------------------------------------------
(* Containment (properties.py get_containment_structure) for one element *)

\* An attribute that is None.
NoEntity == "None"

\* The spatial entities of the document, by GlobalId.  The dictionary the
\* code builds for a container (id, name, elevation, description) is a
\* function of the container, so the GlobalId stands for it.
SpatialEntities == {"S1", "S2", "S3", "P1", "P2", "P3", "B1", "B2", "Site"}

ClassOf(entity) ==
    CASE entity \in {"S1", "S2", "S3"} -> "IfcBuildingStorey"
      [] entity \in {"P1", "P2", "P3"} -> "IfcSpace"
      [] entity \in {"B1", "B2"} -> "IfcBuilding"
      [] OTHER -> "IfcSite"

Aggregates(object) == [is_a |-> "IfcRelAggregates", RelatingObject |-> object]

\* container.Decomposes: S1 is in B1; S2 is listed under the site and under
\* B2; S3 is in nothing; P1 is in S1; P2 is listed under P1 and under S2; P3
\* is in nothing.
Decomposes(entity) ==
    CASE entity = "S1" -> <<Aggregates("B1")>>
      [] entity = "S2" -> <<Aggregates("Site"), Aggregates("B2")>>
      [] entity = "P1" -> <<Aggregates("S1")>>
      [] entity = "P2" -> <<Aggregates("P1"), Aggregates("S2")>>
      [] OTHER -> <<>>

\* The relationships an element's ContainedInStructure can hold.
ContainmentRels ==
    [is_a : {"IfcRelContainedInSpatialStructure", "IfcRelReferencedInSpatialStructure"},
     RelatingStructure : {NoEntity} \cup (SpatialEntities \ {"B2", "Site"})]

ContainedElements ==
    {[has_attr |-> FALSE, ContainedInStructure |-> <<>>]}
        \cup {[has_attr |-> TRUE, ContainedInStructure |-> rels] :
                rels \in SeqsUpTo(ContainmentRels, MaxRels)}

EmptyStructure == [building |-> NoEntity, storey |-> NoEntity, space |-> NoEntity]

\* for rel in container.Decomposes: the RelatingObject of the first
\* IfcRelAggregates whose object is of the class (the loop breaks there).
RECURSIVE FirstRelatingObject(_, _)
FirstRelatingObject(rels, class) ==
    IF rels = <<>> THEN NoEntity
    ELSE IF /\ Head(rels).is_a = "IfcRelAggregates"
            /\ Head(rels).RelatingObject # NoEntity
            /\ ClassOf(Head(rels).RelatingObject) = class
         THEN Head(rels).RelatingObject
         ELSE FirstRelatingObject(Tail(rels), class)

\* "Get building information": the building field is assigned only if a
\* building is found.
WithBuilding(structure, storey) ==
    LET building == FirstRelatingObject(Decomposes(storey), "IfcBuilding")
    IN  IF building = NoEntity THEN structure
        ELSE [structure EXCEPT !.building = building]


\* The body of the loop over element.ContainedInStructure.
VisitRel(structure, rel) ==
    LET container == rel.RelatingStructure
    IN  IF rel.is_a # "IfcRelContainedInSpatialStructure" THEN structure
        ELSE IF container = NoEntity THEN structure
        ELSE IF ClassOf(container) = "IfcBuildingStorey"
             THEN WithBuilding([structure EXCEPT !.storey = container], container)
        ELSE IF ClassOf(container) = "IfcSpace"
             THEN LET storey == FirstRelatingObject(Decomposes(container),
                                                    "IfcBuildingStorey")
                      with_space == [structure EXCEPT !.space = container]
                  IN  IF storey = NoEntity THEN with_space
                      ELSE WithBuilding([with_space EXCEPT !.storey = storey], storey)
        ELSE structure

RECURSIVE VisitRels(_, _)
VisitRels(structure, rels) ==
    IF rels = <<>> THEN structure
    ELSE VisitRels(VisitRel(structure, Head(rels)), Tail(rels))

\* return {k: v for k, v in structure.items() if v is not None}
WithoutNone(structure) ==
    [k \in {f \in DOMAIN structure : structure[f] # NoEntity} |-> structure[k]]

get_containment_structure(e) ==
    WithoutNone(IF e.has_attr THEN VisitRels(EmptyStructure, e.ContainedInStructure)
                ELSE EmptyStructure)

ContainmentInit ==
    /\ ct_pc = "call"
    /\ ct_element \in ContainedElements
    /\ ct_structure = <<>>

GetContainmentStructure ==
    /\ UNCHANGED notContainment
    /\ ct_pc = "call"
    /\ ct_structure' = get_containment_structure(ct_element)
    /\ ct_pc' = "returned"
    /\ UNCHANGED ct_element

ContainmentIdle ==
    /\ ct_pc = "idle"
    /\ ct_element = [has_attr |-> FALSE, ContainedInStructure |-> <<>>]
    /\ ct_structure = <<>>

----------------------------------------------------------------------------
(* Units (units.py) as process_ifc uses them *)

\* getattr(context, "Prefix", None) of a unit without prefix.
NoPrefix == "None"

\* A unit as a record of the attributes the code reads; an attribute the
\* unit's class lacks is never read and holds a filler.
SIUnit(type, name, prefix) ==
    [is_a |-> "IfcSIUnit", UnitType |-> type, Name |-> name, Prefix |-> prefix,
     ValueComponent |-> Frac(1, 1)]

ConversionBasedUnit(type, name, factor) ==
    [is_a |-> "IfcConversionBasedUnit", UnitType |-> type, Name |-> name,
     Prefix |-> NoPrefix, ValueComponent |-> factor]

MonetaryUnit ==
    [is_a |-> "IfcMonetaryUnit", UnitType |-> "None", Name |-> "None",
     Prefix |-> NoPrefix, ValueComponent |-> Frac(1, 1)]

\* The entries a unit assignment can hold: metres, millimetres, square
\* metres, feet (0.3048 m), and a unit that is neither an SI unit nor
\* conversion based.
DeclaredUnits ==
    {SIUnit("LENGTHUNIT", "METRE", NoPrefix),
     SIUnit("LENGTHUNIT", "METRE", "MILLI"),
     SIUnit("AREAUNIT", "SQUARE_METRE", NoPrefix),
     ConversionBasedUnit("LENGTHUNIT", "FOOT", Frac(3048, 10000)),
     MonetaryUnit}

\* The documents: without IfcProject; with a project that has no unit
\* assignment; with a project and the units of its assignment.
UnitDocuments ==
    {[projects |-> 0, UnitsInContext |-> FALSE, Units |-> <<>>],
     [projects |-> 1, UnitsInContext |-> FALSE, Units |-> <<>>]}
        \cup {[projects |-> 1, UnitsInContext |-> TRUE, Units |-> us] :
                us \in SeqsUpTo(DeclaredUnits, MaxUnits)}

\* The dictionary get_project_units stores for a unit.
UnitEntry(context) ==
    IF context.is_a = "IfcSIUnit"
    THEN [type |-> context.UnitType, name |-> context.Name, prefix |-> context.Prefix]
    ELSE [type |-> context.UnitType, name |-> context.Name,
          conversion_factor |-> context.ValueComponent]

\* The loop of get_project_units: units as a function from UnitType to entry.
RECURSIVE ProjectUnits(_, _)
ProjectUnits(units, contexts) ==
    IF contexts = <<>> THEN units
    ELSE LET context == Head(contexts)
             next == IF context.is_a \in {"IfcSIUnit", "IfcConversionBasedUnit"}
                     THEN [t \in DOMAIN units \cup {context.UnitType} |->
                              IF t = context.UnitType THEN UnitEntry(context)
                              ELSE units[t]]
                     ELSE units
         IN  ProjectUnits(next, Tail(contexts))

\* get_project_units: the exception it raises, or the units.
get_project_units(doc) ==
    IF doc.projects = 0 THEN [raised |-> "IndexError", units |-> <<>>]
    ELSE IF ~doc.UnitsInContext
         THEN [raised |-> "AttributeError", units |-> <<>>]
    ELSE [raised |-> "none", units |-> ProjectUnits(<<>>, doc.Units)]

\* The default of units.get("LENGTHUNIT", ...).
DefaultLengthUnit == [type |-> "LENGTHUNIT", name |-> "METER"]

\* prefix_factors, the entries within reach of the units above; an unknown
\* prefix counts 1.0.
prefix_factors(prefix) ==
    CASE prefix = "KILO" -> Frac(1000, 1)
      [] prefix = "HECTO" -> Frac(100, 1)
      [] prefix = "DECA" -> Frac(10, 1)
      [] prefix = "DECI" -> Frac(1, 10)
      [] prefix = "CENTI" -> Frac(1, 100)
      [] prefix = "MILLI" -> Frac(1, 1000)
      [] OTHER -> Frac(1, 1)

MulFrac(a, b) == Frac(a.num * b.num, a.den * b.den)

\* factor, as convert_unit_value computes it from source_unit.
UnitFactor(source_unit) ==
    LET by_prefix == IF "prefix" \in DOMAIN source_unit /\ source_unit.prefix # NoPrefix
                     THEN prefix_factors(source_unit.prefix)
                     ELSE Frac(1, 1)
    IN  IF "conversion_factor" \in DOMAIN source_unit
        THEN MulFrac(by_prefix, source_unit.conversion_factor)
        ELSE by_prefix

\* A leaf: None or a float.
Leaves == {None, Some(Frac(0, 1)), Some(Frac(2, 1))}

\* The values given to convert_unit_value: a leaf or a mapping of leaves.
UnitValues ==
    [kind : {"leaf"}, leaf : Leaves]
        \cup UNION {[kind : {"dict"}, dict : [keys -> Leaves]] :
                        keys \in SUBSET {"net", "gross"}}

ConvertLeaf(leaf, source_unit) ==
    IF ~leaf.has THEN None
    ELSE Some(MulFrac(leaf.val, UnitFactor(source_unit)))

convert_unit_value(value, source_unit) ==
    IF value.kind = "dict"
    THEN [kind |-> "dict",
          dict |-> [k \in {key \in DOMAIN value.dict : value.dict[key].has} |->
                        ConvertLeaf(value.dict[k], source_unit)]]
    ELSE [kind |-> "leaf", leaf |-> ConvertLeaf(value.leaf, source_unit)]

\* Not assigned yet.
NoUnit == [type |-> "None"]
NoUnitValue == [kind |-> "none"]

UnitInit ==
    /\ un_pc = "open"
    /\ un_document \in UnitDocuments
    /\ un_raised = "none"
    /\ un_status = 0
    /\ un_length_unit = NoUnit
    /\ un_value = NoUnitValue
    /\ un_converted = NoUnitValue

\* process_ifc: get_project_units and length_unit; an exception becomes
\* HTTPException 400.
ResolveUnits ==
    /\ UNCHANGED notUnit
    /\ un_pc = "open"
    /\ LET got == get_project_units(un_document)
       IN  /\ un_raised' = got.raised
           /\ IF got.raised # "none"
              THEN /\ un_pc' = "failed"
                   /\ un_status' = 400
                   /\ UNCHANGED un_length_unit
              ELSE /\ un_pc' = "resolved"
                   /\ un_length_unit' = IF "LENGTHUNIT" \in DOMAIN got.units
                                        THEN got.units["LENGTHUNIT"]
                                        ELSE DefaultLengthUnit
                   /\ UNCHANGED un_status
    /\ UNCHANGED <<un_document, un_value, un_converted>>

\* convert_unit_value(value, length_unit)
ConvertUnitValue ==
    /\ UNCHANGED notUnit
    /\ un_pc = "resolved"
    /\ \E value \in UnitValues :
        /\ un_value' = value
        /\ un_converted' = convert_unit_value(value, un_length_unit)
    /\ un_pc' = "converted"
    /\ UNCHANGED <<un_document, un_raised, un_status, un_length_unit>>

UnitIdle ==
    /\ un_pc = "idle"
    /\ un_document = [projects |-> 0, UnitsInContext |-> FALSE, Units |-> <<>>]
    /\ un_raised = "none"
    /\ un_status = 0
    /\ un_length_unit = NoUnit
    /\ un_value = NoUnitValue
    /\ un_converted = NoUnitValue

----------------------------------------------------------------------------
(* Property values (property_values.py) for one query *)

\* A property-set name and a pattern are sequences of name parts; "*" is
\* the wildcard.
WallCommon == <<"Pset_", "Wall", "Common">>
SlabCommon == <<"Pset_", "Slab", "Common">>
WallQuantities == <<"Qto_", "Wall", "BaseQuantities">>

PsetNames == {WallCommon, SlabCommon, WallQuantities}

PsetPatterns == {<<"*", "Common">>, WallCommon}

\* The value of the queried property in a property set: None or a value.
PropertyValues == {"None", "TRUE"}

\* The property sets of an element in IsDefinedBy order, their names distinct.
PsetLists ==
    {ps \in SeqsUpTo([Name : PsetNames, value : PropertyValues], MaxPsets) :
        \A a, b \in 1..Len(ps) : ps[a].Name = ps[b].Name => a = b}

\* ifc_file.by_type(ifc_class); the GlobalId of an element is its position.
QueriedElements == SeqsUpTo(PsetLists, MaxQueried)

\* regex_pattern.match(name) with "*" replaced by ".*": the pattern has to
\* match a prefix of the name.
RECURSIVE RegexMatch(_, _)
RegexMatch(pattern, name) ==
    IF pattern = <<>> THEN TRUE
    ELSE IF Head(pattern) = "*"
         THEN \E k \in 0..Len(name) :
                RegexMatch(Tail(pattern), SubSeq(name, k + 1, Len(name)))
    ELSE /\ name # <<>>
         /\ Head(name) = Head(pattern)
         /\ RegexMatch(Tail(pattern), Tail(name))

HasWildcard(pattern) == \E k \in 1..Len(pattern) : pattern[k] = "*"

RECURSIVE MatchingNames(_, _)
MatchingNames(psets, pattern) ==
    IF psets = <<>> THEN <<>>
    ELSE (IF RegexMatch(pattern, Head(psets).Name) THEN <<Head(psets).Name>> ELSE <<>>)
            \o MatchingNames(Tail(psets), pattern)

get_matching_psets(psets, pset_pattern) ==
    IF ~HasWildcard(pset_pattern) THEN <<pset_pattern>>
    ELSE MatchingNames(psets, pset_pattern)

\* ifcopenshell.util.element.get_pset(element, pset_name, property_name)
RECURSIVE get_pset(_, _)
get_pset(psets, name) ==
    IF psets = <<>> THEN "None"
    ELSE IF Head(psets).Name = name THEN Head(psets).value
    ELSE get_pset(Tail(psets), name)

\* for pset_name in matching_psets: the loop variable is the variable that
\* holds the pattern.  Yields pset_name after the loop and the value found.
RECURSIVE TryPsets(_, _, _)
TryPsets(psets, matching, pset_name) ==
    IF matching = <<>> THEN [pset_name |-> pset_name, value |-> "None"]
    ELSE LET prop_value == get_pset(psets, Head(matching))
         IN  IF prop_value # "None"
             THEN [pset_name |-> Head(matching), value |-> prop_value]
             ELSE TryPsets(psets, Tail(matching), Head(matching))

\* The loop over the elements from position k on.
RECURSIVE QueryFrom(_, _, _, _)
QueryFrom(elements, k, pset_name, results) ==
    IF k > Len(elements) THEN results
    ELSE LET tried == TryPsets(elements[k], get_matching_psets(elements[k], pset_name),
                               pset_name)
         IN  QueryFrom(elements, k + 1, tried.pset_name,
                       IF tried.value # "None"
                       THEN Append(results, [guid |-> k, value |-> tried.value])
                       ELSE results)

get_property_values(elements, pset_name) == QueryFrom(elements, 1, pset_name, <<>>)

PropertyValueInit ==
    /\ pv_pc = "call"
    /\ pv_elements \in QueriedElements
    /\ pv_pattern \in PsetPatterns
    /\ pv_results = <<>>

GetPropertyValues ==
    /\ UNCHANGED notPropertyValue
    /\ pv_pc = "call"
    /\ pv_results' = get_property_values(pv_elements, pv_pattern)
    /\ pv_pc' = "returned"
    /\ UNCHANGED <<pv_elements, pv_pattern>>

PropertyValueIdle ==
    /\ pv_pc = "idle"
    /\ pv_elements = <<>>
    /\ pv_pattern = <<>>
    /\ pv_results = <<>>

----------------------------------------------------------------------------
(* API key middleware (middleware/api_key.py) for one request *)

\* A path is the sequence of its segments: <<"api", "ifc", "process">> is
\* /api/ifc/process.
swagger_paths ==
    {<<"docs">>, <<"redoc">>, <<"openapi.json">>, <<"favicon.ico">>,
     <<"docs", "oauth2-redirect">>, <<"docs", "swagger-ui-bundle.js">>,
     <<"docs", "swagger-ui.css">>, <<"docs", "swagger-ui-standalone-preset.js">>}

RequestPaths ==
    {<<"api", "ifc", "process">>, <<"api", "ifc", "split-by-storey">>,
     <<"api", "ifc", "docs">>, <<"api", "openapi.json">>,
     <<"docs">>, <<"openapi.json">>, <<"health">>}

\* request.headers.get("referer", "unknown"): no header, the documentation
\* page, another page.  A URL is the sequence of its host and its segments.
Referers == {<<"unknown">>, <<"host", "docs">>, <<"host", "app">>}

\* request.headers.get("X-API-Key", "")
ApiKeys == {"", "user-key", "other-key"}

ApiRequests == [path : RequestPaths, referer : Referers, api_key : ApiKeys]

\* request.url.path.endswith(path)
EndsWith(path, suffix) ==
    /\ Len(suffix) <= Len(path)
    /\ SubSeq(path, Len(path) - Len(suffix) + 1, Len(path)) = suffix

\* "/docs" in referer
ContainsDocs(referer) == \E k \in 2..Len(referer) : referer[k] = "docs"

is_swagger_request(request) ==
    \/ \E path \in swagger_paths : EndsWith(request.path, path)
    \/ ContainsDocs(request.referer)

\* full_path.startswith("/api")
StartsWithApi(path) == path # <<>> /\ path[1] = "api"

Unauthorized == [status |-> 401, detail |-> "Invalid or missing API Key"]

\* What the route handler answers; its content is not modelled.
FromHandler == [status |-> 200, detail |-> "handler"]
NoResponse == [status |-> 0, detail |-> "none"]

ApiKeyInit ==
    /\ ak_pc = "request"
    /\ ak_request \in ApiRequests
    /\ ak_user_keys \in {{}, {"user-key"}}
    /\ ak_response = NoResponse
    /\ ak_passed = FALSE

\* api_key_middleware; a failure of capture_event is logged and changes
\* nothing.
ApiKeyMiddleware ==
    /\ UNCHANGED notApiKey
    /\ ak_pc = "request"
    /\ LET is_docs == is_swagger_request(ak_request)
           api_key == ak_request.api_key
       IN  IF is_docs
           THEN ak_passed' = TRUE /\ ak_response' = FromHandler
           ELSE IF StartsWithApi(ak_request.path)
                    /\ (api_key = "" \/ api_key \notin ak_user_keys)
                THEN ak_passed' = FALSE /\ ak_response' = Unauthorized
           ELSE ak_passed' = TRUE /\ ak_response' = FromHandler
    /\ ak_pc' = "answered"
    /\ UNCHANGED <<ak_request, ak_user_keys>>

ApiKeyIdle ==
    /\ ak_pc = "idle"
    /\ ak_request = [path |-> <<>>, referer |-> <<"unknown">>, api_key |-> ""]
    /\ ak_user_keys = {}
    /\ ak_response = NoResponse
    /\ ak_passed = FALSE

----------------------------------------------------------------------------
(* The stream of /process (ifc_routes.py process_ifc.generate_response) *)

\* A line is its status, the keys of its JSON object and its progress value
\* (a percentage, 0 where the object has none).
StreamLine(status, keys, progress) ==
    [status |-> status, keys |-> keys, progress |-> progress]

\* Mutant: a progress report without its progress value.
BareLine(processed, total) ==
    StreamLine("processing", {"status", "processed", "total"}, Frac(0, 1))

\* The progress report after `processed` of `total` elements; the initial
\* report has progress 0.
ProgressLine(processed, total) ==
    StreamLine("processing", {"status", "progress", "processed", "total"},
               IF processed = 0 THEN Frac(0, 1) ELSE Frac(processed * 100, total))

CompleteLine == StreamLine("complete", {"status", "elements"}, Frac(0, 1))

ErrorLine == StreamLine("error", {"status", "message"}, Frac(0, 1))

\* current_progress >= last_progress + 5 or i == total_elements, where
\* current_progress = (i / total_elements) * 100 and last_progress is the
\* value reported at element `last` (0 at the start).
ReportDue(processed, last, total) ==
    \/ processed * 100 >= last * 100 + 5 * total
    \/ processed = total

StreamInit ==
    /\ sp_pc = "start"
    /\ sp_total \in 0..MaxStreamed
    /\ sp_i = 0
    /\ sp_last = 0
    /\ sp_lines = <<>>

\* building_elements, total_elements and the initial progress line.
StreamStart ==
    /\ UNCHANGED notStream
    /\ sp_pc = "start"
    /\ sp_lines' = Append(sp_lines, ProgressLine(0, sp_total))
    /\ sp_pc' = "loop"
    /\ UNCHANGED <<sp_total, sp_i, sp_last>>

\* One round of the loop over building_elements.
StreamElement ==
    /\ UNCHANGED notStream
    /\ sp_pc = "loop"
    /\ sp_i < sp_total
    /\ sp_i' = sp_i + 1
    /\ IF ReportDue(sp_i + 1, sp_last, sp_total)
       THEN /\ sp_lines' = Append(sp_lines, ProgressLine(sp_i + 1, sp_total))
            /\ sp_last' = sp_i + 1
       ELSE UNCHANGED <<sp_lines, sp_last>>
    /\ UNCHANGED <<sp_pc, sp_total>>

\* The final line with all elements.
StreamComplete ==
    /\ UNCHANGED notStream
    /\ sp_pc = "loop"
    /\ sp_i = sp_total
    /\ sp_lines' = Append(sp_lines, CompleteLine)
    /\ sp_pc' = "done"
    /\ UNCHANGED <<sp_total, sp_i, sp_last>>

\* A call inside the try raises: the handler yields the error line and
\* raises again, which ends the stream.
StreamRaises ==
    /\ UNCHANGED notStream
    /\ sp_pc \in {"start", "loop"}
    /\ sp_lines' = Append(sp_lines, ErrorLine)
    /\ sp_pc' = "raised"
    /\ UNCHANGED <<sp_total, sp_i, sp_last>>

StreamIdle ==
    /\ sp_pc = "idle"
    /\ sp_total = 0
    /\ sp_i = 0
    /\ sp_last = 0
    /\ sp_lines = <<>>

----------------------------------------------------------------------------
(* Callback delivery (routes/ifc/extract_elements.py process_and_callback) *)

\* callback_config is None.
NoCallback == "None"

CallbackTokens == {"token-a", "token-b"}

\* chunk_size = max(1, total_elements // 10)
chunk_size(total) == IF total \div 10 > 1 THEN total \div 10 ELSE 1

\* len(chunk) for chunk = building_elements[i:i + chunk_size], i counted from 0
ChunkLen(at, total) == IF at + chunk_size(total) <= total THEN chunk_size(total)
                       ELSE total - at

\* progress = min(100, int((i + len(chunk)) / total_elements * 100))
ChunkProgress(at, total) ==
    LET percent == ((at + ChunkLen(at, total)) * 100) \div total
    IN  IF percent < 100 THEN percent ELSE 100

\* A request to the callback URL: its Authorization header and the status
\* and progress of its body.
CallbackRequest(token, status, progress) ==
    [Authorization |-> token, status |-> status, progress |-> progress]

\* await client.post(...): the outcomes.  An open client delivers the
\* request or fails in the network; a client that has left its `async
\* with` block is closed and raises without sending.
Post(client, inbox, request) ==
    IF client = "open"
    THEN {[received |-> Append(inbox, request), lost |-> 0, raised |-> FALSE],
          [received |-> inbox, lost |-> 1, raised |-> TRUE]}
    ELSE {[received |-> inbox, lost |-> 0, raised |-> TRUE]}

CallbackInit ==
    /\ cb_pc = "start"
    /\ cb_config \in {NoCallback} \cup CallbackTokens
    /\ cb_total \in 0..MaxChunked
    /\ cb_i = 0
    /\ cb_client = "none"
    /\ cb_received = <<>>
    /\ cb_lost = 0
    /\ cb_logged = {}

\* Open the document, count the elements, enter `async with
\* httpx.AsyncClient() as client`; with no element the block is left at once.
CallbackStart ==
    /\ UNCHANGED notCallback
    /\ cb_pc = "start"
    /\ IF cb_total = 0
       THEN cb_pc' = "final" /\ cb_client' = "closed"
       ELSE cb_pc' = "chunks" /\ cb_client' = "open"
    /\ UNCHANGED <<cb_config, cb_total, cb_i, cb_received, cb_lost, cb_logged>>

\* One chunk: its elements are processed and the progress update is sent;
\* after the last chunk the `async with` block is left.
CallbackChunk ==
    /\ UNCHANGED notCallback
    /\ cb_pc = "chunks"
    /\ LET progress == ChunkProgress(cb_i, cb_total)
           next == cb_i + chunk_size(cb_total)
       IN  /\ cb_i' = next
           /\ IF cb_config # NoCallback /\ progress % 10 = 0
              THEN \E out \in Post(cb_client, cb_received,
                                   CallbackRequest(cb_config, "processing", progress)) :
                    /\ cb_received' = out.received
                    /\ cb_lost' = cb_lost + out.lost
                    /\ cb_logged' = IF out.raised
                                    THEN cb_logged \cup {"Failed to send progress update"}
                                    ELSE cb_logged
              ELSE UNCHANGED <<cb_received, cb_lost, cb_logged>>
           /\ IF next >= cb_total
              THEN cb_pc' = "final" /\ cb_client' = "closed"
              ELSE UNCHANGED <<cb_pc, cb_client>>
    /\ UNCHANGED <<cb_config, cb_total>>

\* Prepare the final response, send the final result, return.
CallbackFinal ==
    /\ UNCHANGED notCallback
    /\ cb_pc = "final"
    /\ IF cb_config # NoCallback
       THEN \E out \in Post(cb_client, cb_received,
                            CallbackRequest(cb_config, "completed", 100)) :
                /\ cb_received' = out.received
                /\ cb_lost' = cb_lost + out.lost
                /\ cb_logged' = IF out.raised
                                THEN cb_logged \cup {"Failed to send final result"}
                                ELSE cb_logged
       ELSE UNCHANGED <<cb_received, cb_lost, cb_logged>>
    /\ cb_pc' = "returned"
    /\ UNCHANGED <<cb_config, cb_total, cb_i, cb_client>>

\* Processing raises: the error update is sent with a client of its own and
\* HTTPException 400 is raised.
CallbackError ==
    /\ UNCHANGED notCallback
    /\ cb_pc \in {"start", "chunks", "final"}
    /\ IF cb_config # NoCallback
       THEN \E out \in Post("open", cb_received, CallbackRequest(cb_config, "error", 0)) :
                /\ cb_received' = out.received
                /\ cb_lost' = cb_lost + out.lost
                /\ cb_logged' = {"Error processing IFC file"} \cup
                                (IF out.raised THEN cb_logged \cup {"Failed to send error update"}
                                 ELSE cb_logged)
       ELSE /\ cb_logged' = cb_logged \cup {"Error processing IFC file"}
            /\ UNCHANGED <<cb_received, cb_lost>>
    /\ cb_pc' = "failed"
    /\ cb_client' = IF cb_client = "open" THEN "closed" ELSE cb_client
    /\ UNCHANGED <<cb_config, cb_total, cb_i>>

CallbackIdle ==
    /\ cb_pc = "idle"
    /\ cb_config = NoCallback
    /\ cb_total = 0
    /\ cb_i = 0
    /\ cb_client = "none"
    /\ cb_received = <<>>
    /\ cb_lost = 0
    /\ cb_logged = {}

----------------------------------------------------------------------------
(* Specifications *)

vars == <<splitVars, extractVars, materialVars, constituentVars, resolveVars,
          containmentVars, unitVars, propertyValueVars, apiKeyVars, streamVars,
          callbackVars>>

\* A run of split_by_storey.
Init == SplitInit /\ ExtractIdle /\ ServiceIdle /\ ConstituentIdle /\ ResolveIdle /\
        ContainmentIdle /\ UnitIdle /\ PropertyValueIdle /\ ApiKeyIdle /\ StreamIdle /\
        CallbackIdle

Next == Begin \/ CopyOpen \/ AddPass \/ ClosurePass \/ PrunePass \/ WriteRecord \/ Return

Spec == Init /\ [][Next]_vars

\* A request to extract_building_elements.
InitExtract == SplitIdle /\ ExtractInit /\ ServiceIdle /\ ConstituentIdle /\
               ResolveIdle /\ ContainmentIdle /\ UnitIdle /\ PropertyValueIdle /\
               ApiKeyIdle /\ StreamIdle /\ CallbackIdle

NextExtract == ExtractElement

SpecExtract == InitExtract /\ [][NextExtract]_vars

\* Calls of the material service on one element.
InitMaterials == SplitIdle /\ ExtractIdle /\ ServiceInit /\ ConstituentIdle /\
                 ResolveIdle /\ ContainmentIdle /\ UnitIdle /\ PropertyValueIdle /\
                 ApiKeyIdle /\ StreamIdle /\ CallbackIdle

NextMaterials == GetElementMaterials \/ GetMaterialVolumes

SpecMaterials == InitMaterials /\ [][NextMaterials]_vars

\* A call of compute_constituent_fractions.
InitConstituents == SplitIdle /\ ExtractIdle /\ ServiceIdle /\ ConstituentInit /\
                    ResolveIdle /\ ContainmentIdle /\ UnitIdle /\ PropertyValueIdle /\
                    ApiKeyIdle /\ StreamIdle /\ CallbackIdle

NextConstituents == ComputeConstituentFractions

SpecConstituents == InitConstituents /\ [][NextConstituents]_vars

\* Calls of the resolution functions on one element.
InitResolve == SplitIdle /\ ExtractIdle /\ ServiceIdle /\ ConstituentIdle /\
               ResolveInit /\ ContainmentIdle /\ UnitIdle /\ PropertyValueIdle /\
               ApiKeyIdle /\ StreamIdle /\ CallbackIdle

NextResolve ==
    \/ GetVolumeFromBasequantities \/ GetAreaFromBasequantities
    \/ GetDimensionsFromBasequantities
    \/ GetVolumeFromProperties \/ GetAreaFromProperties \/ GetDimensionsFromProperties
    \/ GetElementProperty \/ ClearQuantityCaches \/ ClearPropertyCaches

SpecResolve == InitResolve /\ [][NextResolve]_vars

\* A call of get_containment_structure.
InitContainment == SplitIdle /\ ExtractIdle /\ ServiceIdle /\ ConstituentIdle /\
                   ResolveIdle /\ ContainmentInit /\ UnitIdle /\ PropertyValueIdle /\
                   ApiKeyIdle /\ StreamIdle /\ CallbackIdle

NextContainment == GetContainmentStructure

SpecContainment == InitContainment /\ [][NextContainment]_vars

\* Unit resolution in process_ifc and one conversion.
InitUnits == SplitIdle /\ ExtractIdle /\ ServiceIdle /\ ConstituentIdle /\
             ResolveIdle /\ ContainmentIdle /\ UnitInit /\ PropertyValueIdle /\
             ApiKeyIdle /\ StreamIdle /\ CallbackIdle

NextUnits == ResolveUnits \/ ConvertUnitValue

SpecUnits == InitUnits /\ [][NextUnits]_vars

\* A call of get_property_values.
InitPropertyValues == SplitIdle /\ ExtractIdle /\ ServiceIdle /\ ConstituentIdle /\
                      ResolveIdle /\ ContainmentIdle /\ UnitIdle /\
                      PropertyValueInit /\ ApiKeyIdle /\ StreamIdle /\ CallbackIdle

NextPropertyValues == GetPropertyValues

SpecPropertyValues == InitPropertyValues /\ [][NextPropertyValues]_vars

\* A request through the API key middleware.
InitApiKey == SplitIdle /\ ExtractIdle /\ ServiceIdle /\ ConstituentIdle /\
              ResolveIdle /\ ContainmentIdle /\ UnitIdle /\ PropertyValueIdle /\
              ApiKeyInit /\ StreamIdle /\ CallbackIdle

NextApiKey == ApiKeyMiddleware

SpecApiKey == InitApiKey /\ [][NextApiKey]_vars

\* A run of the response generator of /process.
InitStream == SplitIdle /\ ExtractIdle /\ ServiceIdle /\ ConstituentIdle /\
              ResolveIdle /\ ContainmentIdle /\ UnitIdle /\ PropertyValueIdle /\
              ApiKeyIdle /\ StreamInit /\ CallbackIdle

NextStream == StreamStart \/ StreamElement \/ StreamComplete \/ StreamRaises

SpecStream == InitStream /\ [][NextStream]_vars

\* A task of extract_building_elements.
InitCallback == SplitIdle /\ ExtractIdle /\ ServiceIdle /\ ConstituentIdle /\
                ResolveIdle /\ ContainmentIdle /\ UnitIdle /\ PropertyValueIdle /\
                ApiKeyIdle /\ StreamIdle /\ CallbackInit

NextCallback == CallbackStart \/ CallbackChunk \/ CallbackFinal \/ CallbackError

SpecCallback == InitCallback /\ [][NextCallback]_vars

----------------------------------------------------------------------------
(* Properties of split_by_storey *)

Records == {result_files[k] : k \in 1..Len(result_files)}

RecordFor(s) == \E r \in Records : r.storey_id = s

\* The sub-document a record points at: what the file at file_path holds.
SubDocument(r) == disk[r.file_path].ents

ElementsOf(ents) == {e \in Elems : Element(e) \in ents}

EveryElementInAStorey == \A e \in Elems : file0.contain[e].k = "IfcBuildingStorey"

NoStoreyFails == \A s \in 1..file0.n : storey_error[s] = "none"

NoElementError == \A s \in 1..file0.n : elem_errors[s] = {}

Partition ==
    /\ \A r1, r2 \in Records :
          r1 # r2 => ElementsOf(SubDocument(r1)) \cap ElementsOf(SubDocument(r2)) = {}
    /\ UNION {ElementsOf(SubDocument(r)) : r \in Records} = Elems

C2_StoreyScoped ==
    \A r \in Records :
        \A e \in ElementsOf(SubDocument(r)) :
            /\ file0.contain[e] = Storey(r.storey_id)
            /\ RelCont(file0.contain[e]) \in SubDocument(r)

\* A record whose storey keeps an element, after the closure pass pulled in
\* an element of a space, one of another storey and the prune pass removed them.
C2_Witness ==
    \E r \in Records :
        /\ ElementsOf(SubDocument(r)) # {}
        /\ \E e \in removed[r.storey_id] :
              file0.contain[e] = Space \/ file0.contain[e].k = "IfcBuildingStorey"

\* C3, as claimed: in every sub-document of the returned list, every entity of the source's
\* inverse index that points at an entity added in the add pass is present,
\* unless it is itself an element that fails the storey test.
C3_ClosureRepair ==
    pc = "returned" =>
    \A r \in Records :
        \A x \in added[r.storey_id] :
            \A y \in get_inverse(file0, x) :
                \/ y \in SubDocument(r)
                \/ y.k = "IfcElement" /\ file0.contain[y.n] # Storey(r.storey_id)

\* C3, amended: the same, unless get_inverse raised for the added entity or
\* adding the inverse entity raised in the closure pass (logged, skipped).
C3_ClosureRepairUnlessSkipped ==
    pc = "returned" =>
    \A r \in Records :
        \A x \in added[r.storey_id] :
            \A y \in get_inverse(file0, x) :
                \/ y \in SubDocument(r)
                \/ y.k = "IfcElement" /\ file0.contain[y.n] # Storey(r.storey_id)
                \/ [ent |-> x, at |-> "get_inverse"] \in elem_errors[r.storey_id]
                \/ [ent |-> y, at |-> "add_inverse"] \in elem_errors[r.storey_id]

C3_Witness ==
    /\ pc = "returned"
    /\ \E r \in Records :
        \E e \in Elems :
            /\ Element(e) \in added[r.storey_id]
            /\ {RelProps, RelCont(file0.contain[e])} \subseteq get_inverse(file0, Element(e))
            /\ {RelProps, RelCont(file0.contain[e])} \subseteq SubDocument(r)

\* C4: with no storey the ValueError raised at the check is the error the
\* caller receives, and no record is returned.
C4_NoStoreysError ==
    (pc = "raised" /\ raised = "ValueError")
        => (received = "ValueError" /\ result_files = <<>>)

\* C5: an exception that reaches the storey handler at any step never ends
\* split_by_storey with an error; at the return the result holds a record for
\* exactly the storeys whose processing did not fail.
C5_StoreyFailureNonFatal ==
    /\ (\E s \in 1..file0.n : storey_error[s] # "none") => pc # "raised"
    /\ \A s \in 1..file0.n : storey_error[s] # "none" => ~RecordFor(s)
    /\ pc = "returned" =>
          \A s \in 1..file0.n : storey_error[s] = "none" => RecordFor(s)

C5_Witness ==
    /\ pc = "returned"
    /\ \E s, t \in 1..file0.n :
          storey_error[s] # "none" /\ ~RecordFor(s) /\ RecordFor(t)

\* C6: a failure while handling a single element, in the add pass, the closure
\* pass or the prune pass, skips only that element: the storey's sub-document
\* is written and its record emitted.
C6_ElementFailureIsolated ==
    pc = "returned" =>
        \A s \in 1..file0.n :
            ( /\ elem_errors[s] # {} \/ storey_error[s] = "prune"
              /\ storey_error[s] \in {"none", "prune"} )
                => (RecordFor(s) /\ disk[s].state = "split")

C8_PlaceholderAdd ==
    (pc = "closure" /\ elem_errors[i] = {}) =>
        \A e \in Elems :
            /\ Element(e) \in new_ifc
            /\ file0.contain[e] # Storey(i) => Rep(e) \notin new_ifc

\* C8, amended: the add pass sets the representation of an element that fails
\* the storey test to null in the per-storey copy and skips it: it is not in
\* the target after the add pass. It can enter the target only in the closure
\* pass, then without its representation, and the prune pass removes it.
C8_NulledAndSkipped ==
    \A e \in Elems :
        (pc \in {"closure", "prune", "write"} /\ file0.contain[e] # Storey(i)) =>
            /\ ~old_ifc.rep[e]
            /\ Rep(e) \notin new_ifc
            /\ pc = "closure" => Element(e) \notin new_ifc
            /\ pc = "write" => Element(e) \notin new_ifc

C8_Witness ==
    /\ pc = "prune"
    /\ \E e \in Elems :
          /\ file0.contain[e] # Storey(i)
          /\ Element(e) \in new_ifc
          /\ Rep(e) \notin new_ifc

\* C9: the caller's source document is what it was at construction, in every
\* state, also after split_by_storey returned or raised.
C9_SourceNotMutated == file = file0

C9_Witness ==
    /\ pc = "returned"
    /\ \E e \in Elems : ~old_ifc.rep[e] /\ file.rep[e]
    /\ Len(result_files) >= 1

----------------------------------------------------------------------------
(* Properties of extract_building_elements *)

\* The element has a warning carrying its own id.
Warned ==
    \E k \in 1..Len(invalid_material_fractions) :
        invalid_material_fractions[k].element_id = element.GlobalId

\* C10: fraction invariant.  In the output, an element that exposes
\* material_volumes has fractions summing to 1 within 0.001; an element whose
\* computed fractions sum outside the tolerance exposes no material_volumes
\* and has a warning with its own id; no element has both a warning and an
\* exposed breakdown.
C10_FractionInvariant ==
    xpc = "done" =>
        /\ element_data.present => WithinTolerance(SumFrac(element_data.fractions))
        /\ (\E k \in 1..Len(totals) : ~WithinTolerance(totals[k]))
               => ~element_data.present /\ Warned
        /\ ~(element_data.present /\ invalid_material_fractions # <<>>)

----------------------------------------------------------------------------
(* Properties of MaterialService *)

Returned(method) == method \in svc_called

EqFrac(a, b) == a.num * b.den = b.num * a.den

\* The element's only material association is a layered set.
LayeredOnly ==
    /\ Len(svc_element.HasAssociations) = 1
    /\ svc_element.HasAssociations[1].kind = "IfcMaterialLayerSetUsage"

\* thickness_i / sum(thickness), 0 when the total thickness is 0.
ThicknessShare(m, k) ==
    IF SumNat(m.layers) = 0 THEN Frac(0, 1) ELSE Frac(m.layers[k], SumNat(m.layers))

Times(V, f) == Frac(V * f.num, f.den)

\* C11 as stated: for an element with a layered set and total volume V,
\* layer i gets exactly the fraction thickness_i / sum(thickness) and the
\* volume V * fraction_i, in layer order; every fraction is 0 when the total
\* thickness is 0.
C11_LayeredSetExact ==
    (Returned("get_material_volumes") /\ LayeredOnly) =>
        LET m == svc_element.HasAssociations[1]
            V == total_volume(svc_element)
        IN  /\ Len(svc_volumes) = Len(m.layers)
            /\ \A k \in 1..Len(m.layers) :
                   /\ EqFrac(svc_volumes[k].fraction, ThicknessShare(m, k))
                   /\ EqFrac(svc_volumes[k].volume, Times(V, ThicknessShare(m, k)))

\* C11 amended: layer i gets the fraction thickness_i / sum(thickness) rounded
\* to five decimal places and the volume V * thickness_i / sum(thickness)
\* rounded to five decimal places, in layer order; every fraction is 0 when
\* the total thickness is 0; for V = 10 and thicknesses 0.02 and 0.18 the
\* fractions are 0.1 and 0.9 and the volumes 1.0 and 9.0.
C11_LayeredSetRounded ==
    (Returned("get_material_volumes") /\ LayeredOnly) =>
        LET m == svc_element.HasAssociations[1]
            V == total_volume(svc_element)
        IN  /\ Len(svc_volumes) = Len(m.layers)
            /\ \A k \in 1..Len(m.layers) :
                   /\ svc_volumes[k].fraction = _round_value(ThicknessShare(m, k))
                   /\ svc_volumes[k].volume = _round_value(Times(V, ThicknessShare(m, k)))
            /\ (m.layers = <<2, 18>> /\ V = 10) =>
                   /\ EqFrac(svc_volumes[1].fraction, Frac(1, 10))
                   /\ EqFrac(svc_volumes[2].fraction, Frac(9, 10))
                   /\ EqFrac(svc_volumes[1].volume, Frac(1, 1))
                   /\ EqFrac(svc_volumes[2].volume, Frac(9, 1))

\* C11 witness: the scenario wall with net volume 10 has been resolved.
C11_Witness ==
    /\ Returned("get_material_volumes")
    /\ svc_element.HasAssociations = <<ScenarioWall>>
    /\ total_volume(svc_element) = 10
    /\ Len(svc_volumes) = 2
    /\ svc_volumes[1].fraction = Frac(10000, Digits5)

FirstAssociationNames ==
    IF svc_element.HasAssociations = <<>> THEN <<>>
    ELSE svc_element.HasAssociations[1].names

\* C12: single assignment.  An element contributes at most one material
\* assignment: of several material associations only the first is used, the
\* others add no names to get_element_materials and no fractions to
\* get_material_volumes.
C12_SingleAssignment ==
    /\ Returned("get_element_materials") => svc_materials = FirstAssociationNames
    /\ Returned("get_material_volumes") => Len(svc_volumes) = Len(FirstAssociationNames)

\* The element's only material association is one IfcMaterial.
SingleOnly ==
    /\ Len(svc_element.HasAssociations) = 1
    /\ svc_element.HasAssociations[1].kind = "IfcMaterial"

\* C13: total volume selection.  The volume distributed over the materials
\* is the net volume whenever one is present (a present 0 included),
\* otherwise the gross volume, otherwise 0; with no volume at all the
\* structure is still returned, with every volume 0.
C13_TotalVolumeSelection ==
    Returned("get_material_volumes") =>
        /\ SingleOnly =>
               /\ Len(svc_volumes) = 1
               /\ EqFrac(svc_volumes[1].volume,
                         Frac(IF svc_element.net.has THEN svc_element.net.val
                              ELSE IF svc_element.gross.has THEN svc_element.gross.val
                              ELSE 0, 1))
        /\ (~svc_element.net.has /\ ~svc_element.gross.has) =>
               /\ Len(svc_volumes) = Len(element_material_names(svc_element.HasAssociations))
               /\ \A k \in 1..Len(svc_volumes) : svc_volumes[k].volume.num = 0

\* Every layer or constituent of the element resolves to the same name.
OneName ==
    LET names == element_material_names(svc_element.HasAssociations)
    IN  \A j, k \in 1..Len(names) : names[j] = names[k]

\* C14: duplicate-name disambiguation.  When the layers or constituents of an
\* element resolve to the same name X, the map has the keys "X" and "X (2)"
\* in that order, and a third duplicate gets "X (3)".
C14_DuplicateKeys ==
    (Returned("get_material_volumes") /\ OneName) =>
        LET names == element_material_names(svc_element.HasAssociations)
        IN  \A k \in 1..Len(svc_volumes) :
                svc_volumes[k].key = IF k = 1 THEN names[k]
                                     ELSE names[k] \o " (" \o ToString(k) \o ")"

----------------------------------------------------------------------------
(* Properties of compute_constituent_fractions *)

\* C15: constituent fractions.  For a non-empty constituent set the function
\* returns one fraction per constituent: 1/n each when the matched widths sum
\* to exactly 0, width_i / sum(width) otherwise; the fractions sum to 1.
C15_ConstituentFractions ==
    (cf_pc = "returned" /\ cf_constituents # <<>>) =>
        LET n == Len(cf_constituents)
            total == SumNat(cf_widths)
        IN  /\ Len(cf_fractions) = n
            /\ Len(cf_widths) = n
            /\ \A k \in 1..n :
                   EqFrac(cf_fractions[k],
                          IF total = 0 THEN Frac(1, n) ELSE Frac(cf_widths[k], total))
            /\ EqFrac(SumFrac(cf_fractions), Frac(1, 1))

\* C15 witness: two constituents with different matched widths were resolved.
C15_Witness ==
    /\ cf_pc = "returned"
    /\ Len(cf_constituents) = 2
    /\ cf_widths[1] # 0
    /\ cf_widths[2] # 0
    /\ cf_widths[1] # cf_widths[2]
    /\ ~EqFrac(cf_fractions[1], cf_fractions[2])

\* Two names written in a document are the same name when they agree after
\* trimming and lower-casing.
SameName(a, b) == a # NoName /\ b # NoName /\ StripLower(a) = StripLower(b)

\* The positions of the complex quantities bearing the name of constituent k.
QuantitiesNamedLike(k) ==
    {q \in 1..Len(cf_quantities) :
        cf_quantities[q].complex /\ SameName(cf_constituents[k], cf_quantities[q].Name)}

\* Constituent k is the Rank(k)-th constituent bearing its name.
Rank(k) == Cardinality({j \in 1..k : SameName(cf_constituents[j], cf_constituents[k])})

IsWidth(sub) == sub.length /\ SameName(sub.Name, "Width")

\* The 'Width' of quantity q scaled by the unit factor, 0 if it has none.
ScaledWidth(q) ==
    LET subs == cf_quantities[q].HasQuantities
        found == {j \in 1..Len(subs) : IsWidth(subs[j])}
    IN  IF found = {} THEN 0
        ELSE subs[CHOOSE j \in found : \A h \in found : j <= h].LengthValue * cf_unit_scale

\* C16: constituent-to-quantity matching.  The k-th constituent bearing a
\* name takes its width from the 'Width' sub-quantity of the k-th complex
\* quantity bearing that name, scaled by the unit factor; with no such
\* quantity, or no 'Width' in it, the width is 0; no quantity is used for two
\* constituents.
C16_QuantityMatching ==
    cf_pc = "returned" =>
        /\ \A k \in 1..Len(cf_constituents) :
               cf_constituents[k] # NoName =>
                   LET named == QuantitiesNamedLike(k)
                       kth == {q \in named : Cardinality({p \in named : p < q}) = Rank(k) - 1}
                   IN  IF kth = {}
                       THEN cf_matched[k] = 0 /\ cf_widths[k] = 0
                       ELSE \A q \in kth : cf_matched[k] = q /\ cf_widths[k] = ScaledWidth(q)
        /\ \A j, k \in 1..Len(cf_constituents) :
               (j # k /\ cf_matched[j] # 0) => cf_matched[j] # cf_matched[k]

\* C16 witness: two constituents of the same name, written differently, took
\* the widths of the first and the second quantity of that name.
C16_Witness ==
    /\ cf_pc = "returned"
    /\ cf_constituents = <<"A", " a ">>
    /\ cf_matched = <<1, 2>>
    /\ cf_widths[1] # cf_widths[2]
    /\ cf_widths[2] # 0

----------------------------------------------------------------------------
(* Properties of quantity resolution *)

\* What get_<kind>_from_properties has returned.
Resolutions == res_returned["properties"]

\* The property of field f read from Pset_<Type>Common, then from
\* Pset_ElementCommon, is the number n.
PropertyNumber(f, n) ==
    \/ res_element.TypeCommon[f] = Number(n)
    \/ res_element.TypeCommon[f] = NoValue /\ res_element.ElementCommon[f] = Number(n)

PropertyText(f) == res_element.TypeCommon[f] = Text

\* C17: fallback precedence.  For an element with a quantity-set value and a
\* property of a different value for the same field, resolution returns the
\* quantity-set value: net and gross volume, areas and dimensions alike.
C17_QuantitySetPrecedence ==
    \A v \in Resolutions : \A f \in FieldsOf(res_kind) :
        (res_element.Quantities[f].has
         /\ \E n \in {3, 4} : PropertyNumber(f, n) /\ n # res_element.Quantities[f].val)
            => v[f] = res_element.Quantities[f]

\* C18: per-field fallback.  When the quantity set supplies one field of a
\* quantity but not another, the missing field is resolved from the common
\* property sets instead of being left absent.
C18_PerFieldFallback ==
    \A v \in Resolutions : \A f \in FieldsOf(res_kind) : \A n \in {3, 4} :
        (/\ ~res_element.Quantities[f].has
         /\ \E g \in FieldsOf(res_kind) : res_element.Quantities[g].has
         /\ PropertyNumber(f, n)
         /\ \A g \in FieldsOf(res_kind) : ~PropertyText(g))
            => v[f] = Some(n)

\* C19: coercion failure is local to its field.  When a property value of
\* the chain cannot be coerced to a number only that field becomes absent;
\* the other fields of the quantity keep the values they would otherwise
\* have.
C19_CoercionLocal ==
    \A v \in Resolutions :
        (/\ \A g \in FieldsOf(res_kind) : ~res_element.Quantities[g].has
         /\ \E g \in FieldsOf(res_kind) : PropertyText(g))
            => \A f \in FieldsOf(res_kind) :
                   /\ PropertyText(f) => v[f] = None
                   /\ \A n \in {3, 4} : PropertyNumber(f, n) => v[f] = Some(n)

\* C20: resolution is pure under memoization.  On an unmodified document
\* each resolution function returns an equal value on every call, whatever
\* other calls and cache clears happened in between, and a result handed to
\* a caller is never altered by a later call.
C20_PureUnderMemoization ==
    /\ \A fn \in DOMAIN res_returned : Cardinality(res_returned[fn]) <= 1
    /\ \A handed \in res_handed : res_cache.present => handed = res_cache.value

----------------------------------------------------------------------------
(* Properties of get_containment_structure *)

\* What one relationship alone contributes to the path.
PathOf(rel) == VisitRel(EmptyStructure, rel)

\* The positions of the relationships that yield a container of the kind.
Yielding(kind) ==
    {j \in 1..Len(ct_element.ContainedInStructure) :
        PathOf(ct_element.ContainedInStructure[j])[kind] # NoEntity}

\* C21: for an element with several containment relationships, the path
\* returned holds for each kind (storey, building, space) the container
\* found through the first relationship that yields one, a later
\* relationship overwriting nothing, and the fields of the path all come
\* from one relationship.
C21_FirstMatchWins ==
    ct_pc = "returned" =>
        LET rels == ct_element.ContainedInStructure
        IN  /\ \A kind \in DOMAIN EmptyStructure :
                IF Yielding(kind) = {} THEN kind \notin DOMAIN ct_structure
                ELSE /\ kind \in DOMAIN ct_structure
                     /\ \E j \in Yielding(kind) :
                            /\ \A k \in Yielding(kind) : j <= k
                            /\ ct_structure[kind] = PathOf(rels[j])[kind]
            /\ \/ DOMAIN ct_structure = {}
               \/ \E j \in 1..Len(rels) :
                    \A kind \in DOMAIN ct_structure :
                        ct_structure[kind] = PathOf(rels[j])[kind]

----------------------------------------------------------------------------
(* Properties of the unit functions *)

\* C22: convert_unit_value applied to a mapping returns a mapping with the
\* same keys: each leaf that is not None is the given leaf times the unit
\* factor, and each None leaf is passed through as None, its key kept.
C22_MappingKeepsKeys ==
    (un_pc = "converted" /\ un_value.kind = "dict") =>
        /\ un_converted.kind = "dict"
        /\ DOMAIN un_converted.dict = DOMAIN un_value.dict
        /\ \A k \in DOMAIN un_value.dict :
            IF un_value.dict[k].has
            THEN un_converted.dict[k] =
                    Some(MulFrac(un_value.dict[k].val, UnitFactor(un_length_unit)))
            ELSE un_converted.dict[k] = None

\* The document declares no length unit: it has no project, its project has
\* no unit assignment, or the assignment holds no length unit.
NoLengthUnitDeclared ==
    \/ un_document.projects = 0
    \/ ~un_document.UnitsInContext
    \/ \A k \in 1..Len(un_document.Units) :
           ~(/\ un_document.Units[k].is_a \in {"IfcSIUnit", "IfcConversionBasedUnit"}
             /\ un_document.Units[k].UnitType = "LENGTHUNIT")

\* C23: for a document that declares no length unit, unit resolution raises
\* nothing and the length unit used is meters with scale 1.0.
C23_MissingUnitsNeverFatal ==
    (un_pc # "open" /\ NoLengthUnitDeclared) =>
        /\ un_raised = "none"
        /\ un_status = 0
        /\ un_length_unit = DefaultLengthUnit
        /\ UnitFactor(un_length_unit) = Frac(1, 1)

----------------------------------------------------------------------------
(* Properties of get_property_values *)

\* The property sets of element k, in order, that the query pattern matches
\* and that hold a value for the property.
OwnMatches(k) ==
    SelectSeq(pv_elements[k],
              LAMBDA p : RegexMatch(pv_pattern, p.Name) /\ p.value # "None")

\* The entry the query yields for element k alone.
RECURSIVE ExpectedFrom(_)
ExpectedFrom(k) ==
    IF k > Len(pv_elements) THEN <<>>
    ELSE (IF OwnMatches(k) = <<>> THEN <<>>
          ELSE <<[guid |-> k, value |-> OwnMatches(k)[1].value]>>)
            \o ExpectedFrom(k + 1)

\* C24: for a wildcard query the pattern is matched against each element's
\* own property sets: the result has one value, that of its first matching
\* set, for every element with a matching set that holds the property, in
\* element order, and no entry for any other element, whatever an earlier
\* element matched.
C24_WildcardPerElement ==
    (pv_pc = "returned" /\ HasWildcard(pv_pattern)) => pv_results = ExpectedFrom(1)

----------------------------------------------------------------------------
(* Properties of the API key middleware *)

----------------------------------------------------------------------------
(* Properties of the stream of /process *)

\* The "complete" line is emitted at most once and no line follows it.
CompleteIsLast ==
    \A k \in 1..Len(sp_lines) : sp_lines[k].status = "complete" => k = Len(sp_lines)

\* C26: every line carries a status; a line whose status is "complete"
\* carries the elements list; every line with any other status carries a
\* progress value; the "complete" line is emitted at most once and no line
\* follows it.
C26_StreamShape ==
    /\ \A k \in 1..Len(sp_lines) :
        /\ "status" \in sp_lines[k].keys
        /\ IF sp_lines[k].status = "complete"
           THEN "elements" \in sp_lines[k].keys
           ELSE "progress" \in sp_lines[k].keys
    /\ CompleteIsLast

\* C26, amended: every line carries a status; a "complete" line carries the
\* elements list; an "error" line carries a message and is the last line of
\* its run; every line with any other status carries a progress value; the
\* "complete" line is emitted at most once and no line follows it.
C26_StreamShapeWithErrorLine ==
    /\ \A k \in 1..Len(sp_lines) :
        /\ "status" \in sp_lines[k].keys
        /\ CASE sp_lines[k].status = "complete" -> "elements" \in sp_lines[k].keys
             [] sp_lines[k].status = "error" ->
                    "message" \in sp_lines[k].keys /\ k = Len(sp_lines)
             [] OTHER -> "progress" \in sp_lines[k].keys
    /\ CompleteIsLast

\* C26: a run that ended with the "complete" line after progress reports,
\* one element at least having passed without a report.
C26_Witness ==
    /\ sp_pc = "done"
    /\ sp_lines[Len(sp_lines)].status = "complete"
    /\ Len(sp_lines) > 2
    /\ Len(sp_lines) < sp_total + 2

----------------------------------------------------------------------------
(* Properties of the callback delivery *)

\* The positions in cb_received of the requests with the status.
ReceivedWith(status) == {k \in 1..Len(cb_received) : cb_received[k].status = status}

\* C27: when the task has a callback configuration, processing succeeds and
\* the callback URL accepts every request sent to it, the final result
\* arrives as exactly one "completed" message, after every "processing"
\* message of the task, and every request carries the given token in its
\* Authorization header.
C27_CallbackDelivery ==
    (cb_pc = "returned" /\ cb_config # NoCallback /\ cb_lost = 0) =>
        /\ Cardinality(ReceivedWith("completed")) = 1
        /\ \A c \in ReceivedWith("completed") : \A p \in ReceivedWith("processing") : p < c
        /\ \A k \in 1..Len(cb_received) : cb_received[k].Authorization = cb_config

----------------------------------------------------------------------------
(* Independence of the storeys in split_by_storey *)

\* What the extraction of storey s yields from the source document alone,
\* given the library calls F that raised during it: add pass, closure pass
\* and prune pass on a fresh copy of the source and an empty target.
ExtractedAlone(doc, s, F) ==
    LET Fadd == {f \in F : f.at # "add_inverse"}
        Fclosure == {f \in F : f.at = "add_inverse"}
        cur == NullRepresentations(doc, FailingElements(doc, s))
        kept == KeptElements(doc, s)
        target == UNION {AddedBy(cur, x, Outcome(Fadd, x)) : x \in kept}
        inverse == UNION {CollectInverse(cur, x, Outcome(Fadd, x)) : x \in kept}
        closed == target \cup
                    UNION {AddClosure(cur, y) :
                             y \in {z \in inverse : Outcome(Fclosure, z) = "ok"}}
    IN  closed \ {Element(e) : e \in PruneSet(cur, closed, s)}

----------------------------------------------------------------------------
(* Keys of get_material_volumes *)

\* The layers get_material_volumes builds its map from.
MaterialLayers ==
    get_layer_volumes_and_materials(svc_element.HasAssociations, total_volume(svc_element))

----------------------------------------------------------------------------
(* Cleanup of split_by_storey *)

\* C30: whenever split_by_storey ends with an error, the output directory it
\* was working in has been removed before the error reaches the caller, and
\* on every exit, normal or failing, the temporary copy of the source file
\* has been deleted.
C30_CleanupOnFailure ==
    /\ pc = "raised" => output_dir # "exists"
    /\ pc \in {"raised", "returned"} => src_path # "exists"

====
